---- MODULE Spec2Model ----
(***************************************************************************)
(* Verification model of the go-http-proxy resilience core:                *)
(*   - internal/circuitbreaker/breaker.go  (CircuitBreaker, Wrap)          *)
(*   - internal/cache/cache.go             (Cache: Set, Get, evict, sweep) *)
(* Time is a discrete clock `now`; every duration is a number of ticks.    *)
(***************************************************************************)
EXTENDS Integers, Sequences, FiniteSets, TLC

(***************************************************************************)
(* Bounds of the model.                                                    *)
(***************************************************************************)
NProcs == 2          \* goroutines calling into one breaker
MaxTime == 2         \* the clock runs 0..MaxTime
MaxCount == 3        \* cap of the breaker's failure counter
MaxThreshold == 2    \* maxFailures is drawn from 1..MaxThreshold
MaxTimeout == 1      \* timeout is drawn from 1..MaxTimeout
MaxTrials == 2       \* cap of the history counter trials
MaxBody == 2         \* response bodies hold 0..MaxBody bytes
MaxCacheSize == 1    \* the cache's maxSize is drawn from 1..MaxCacheSize
MaxHits == 1         \* cap of an entry's hit counter

Procs == 1..NProcs

(***************************************************************************)
(* State type of breaker.go: StateClosed, StateHalfOpen, StateOpen.        *)
(***************************************************************************)
StateClosed == "Closed"
StateHalfOpen == "HalfOpen"
StateOpen == "Open"

\* The zero value of time.Time (lastFailure before any Failure()).
ZeroTime == -1

\* Status codes a wrapped handler may leave in statusWriter.status
\* (0: the handler wrote nothing).
Statuses == {0, 200, 500}

VARIABLES
    now,          \* the wall clock (time.Now())
    maxFailures,  \* cb.maxFailures
    timeout,      \* cb.timeout
    state,        \* cb.state
    failures,     \* cb.failures
    lastFailure,  \* cb.lastFailure
    pc,           \* per goroutine: position inside Allow() / Wrap's handler
    inWrap,       \* per goroutine: the running Allow() was called by Wrap
    ret,          \* per goroutine: what Allow() returned to Wrap ("none" outside Wrap)
    invoked,      \* per goroutine: Wrap called next.ServeHTTP for this request
    status,       \* per goroutine: sw.status captured by Wrap (-1: not yet)
    code,         \* per goroutine: status code Wrap itself sent to the client (0: none)
    nrec,         \* per goroutine: Success()/Failure() calls Wrap made for this request
    outcome,      \* per goroutine: which of the two Wrap called ("none" before)
    trials,       \* history: Allow() calls that found the breaker Open-and-timed-out or
                  \* HalfOpen and returned true, since the last Success/Failure/Reset
    armed,        \* history: a Failure() opened the breaker from Closed and, since the
                  \* most recent failure, no more than timeout has elapsed yet
    last,         \* history: the last call that took the write lock, [op, from, fails]:
                  \* its name, and cb.state and cb.failures when it started
    maxSize,      \* c.maxSize (0: no limit)
    ttl,          \* c.ttl
    items,        \* c.items: key -> cacheItem
    size,         \* c.size
    clast,        \* history: the cache call that completed last (and, for a Get
                  \* that directly follows a Set of its key, that Set's input)
    cfg,          \* the proxy's configuration of the service: has a breaker, has a cache
    proxy,        \* the request the proxy is serving: position, request, what it has
                  \* done for it so far and what the client has been sent
    metrics,      \* p.metrics: requests, cacheHits, cacheMisses, errors
    backend,      \* the network: the URL of the last outbound request and how often
                  \* the service's backend has been invoked
    log,          \* history: one summary per request the proxy has finished
    cbs,          \* p.breakers: service -> its CircuitBreaker
    sreq,         \* the request being routed to one of several services
    checker,      \* the health Checker: services, status (sync.Map), stopCh, metrics
    ticker,       \* ticker.C of Checker.Start holds a tick
    loop,         \* the goroutine of Checker.Start
    probes,       \* per service: the goroutine checkServices started for it
    stops,        \* per goroutine calling Stop(): its position
    health,       \* the HealthStatus handleHealth wrote last
    hhist,        \* history of the checker: completed probes, close(stopCh) calls
    fc,           \* the FilterChain: fc.filters
    inserted,     \* history: the filters of the chain in the order they were given
    frun,         \* the last FilterChain.Process: the filters that ran, the error
    callers,      \* per goroutine inside Set, Get or evictExpired: position and locals
    gens,         \* history: per key, how many entries have been stored under it
    subs,         \* history: per entry, how often its size was taken off c.size
    activeRequests, \* p.metrics.activeRequests
    inside        \* per serving goroutine: its position in handleRequest ("out": not in it)

cbVars == <<maxFailures, timeout, state, failures, lastFailure>>
procVars == <<pc, inWrap, ret, invoked, status, code, nrec, outcome>>
histVars == <<trials, armed, last>>
cacheVars == <<maxSize, ttl, items, size, clast>>
breakerVars == <<cbVars, procVars, histVars>>
healthVars == <<checker, ticker, loop, probes, stops, health, hhist>>
filterVars == <<fc, inserted, frun>>
concVars == <<callers, gens, subs>>
gaugeVars == <<activeRequests, inside>>
moreVars == <<filterVars, concVars, gaugeVars>>
sideVars == <<cbs, sreq, healthVars, moreVars>>
proxyVars == <<cfg, proxy, metrics, backend, log, sideVars>>
vars == <<now, breakerVars, cacheVars, proxyVars>>

\* New(name, maxFailures, timeout)
New(mf, to) ==
    /\ maxFailures = mf
    /\ timeout = to
    /\ state = StateClosed
    /\ failures = 0
    /\ lastFailure = ZeroTime

(***************************************************************************)
(* Data of the response cache (internal/cache/cache.go).                   *)
(***************************************************************************)
Methods == {"GET", "POST"}
URLs == {"/a", "/b"}
Bytes == {"x"}

\* *http.Request as far as the cache reads it: a GET of every URL, and one
\* request of another method
Requests == {r \in [Method : Methods, URL : URLs] : r.Method = "GET" \/ r.URL = "/a"}

\* Byte strings of at most MaxBody bytes
Bodies == UNION {[1..n -> Bytes] : n \in 0..MaxBody}

\* resp.Body: a reader over data that has delivered the first pos bytes;
\* NilBody is a nil Body
NilBody == [data |-> <<>>, pos |-> -1]
NewBuffer(b) == [data |-> b, pos |-> 0]

\* *http.Response as far as the cache reads it: the status code, the
\* Cache-Control header and the body.  The responses offered to Set: a 200
\* response for every body (Cache-Control: public on the bodies of odd
\* length, no Cache-Control on the others), and one response for each reason
\* not to store (status, no-store, nil Body)
Responses ==
    {[StatusCode |-> 200,
      CacheControl |-> IF Len(b) % 2 = 1 THEN "public" ELSE "",
      Body |-> NewBuffer(b)] : b \in Bodies}
    \cup [StatusCode : {500}, CacheControl : {""}, Body : {NewBuffer(<<>>)}]
    \cup [StatusCode : {200}, CacheControl : {"no-store"}, Body : {NewBuffer(<<>>)}]
    \cup [StatusCode : {200}, CacheControl : {""}, Body : {NilBody}]

\* The calls of Set offered: every response with a GET of every URL, and a
\* storable response with every other request
SetCalls ==
    {c \in Requests \X Responses :
        c[1].Method = "GET" \/ c[2] = [StatusCode |-> 200, CacheControl |-> "",
                                       Body |-> NewBuffer(<<>>)]}

NoResp == [StatusCode |-> 0, CacheControl |-> "", Body |-> NilBody]
NoReq == [Method |-> "", URL |-> ""]

\* History of the cache: the last call (a Get that follows a Set of its key
\* keeps that Set's record).  Set: req, in, stored, nostore (the policy
\* forbids storing the response), err, evicted, at, and pre, the map and the
\* counter a Set of such a response found; for a Set that evicted, eseq (the
\* keys in the order they were removed), need (the incoming size), at, and
\* in pre the map it found.
\* Get: hit, got, and for a key found in the map req, gat (the time), exp
\* and fsize (the entry's expiry and size); sizeBefore is the counter before a
\* Set that failed or a Get.  copy is the response object Get handed to its
\* caller, as the caller has left it since (got is what it was on return);
\* shared: copy's Cache-Control value is still the slice the entry holds.
\* For every Set: given, the bytes the body of its response had to deliver,
\* and sent, the bytes a writeResponse of the response object delivers once
\* the call has returned.
NoCall ==
    [op |-> "none", req |-> NoReq, in |-> NoResp, stored |-> FALSE,
     nostore |-> FALSE, pre |-> [items |-> <<>>, size |-> 0], err |-> "",
     sizeBefore |-> 0, evicted |-> 0, at |-> 0, afterSet |-> FALSE,
     hit |-> FALSE, got |-> NoResp, gat |-> 0, found |-> FALSE, exp |-> 0,
     fsize |-> 0, copy |-> NoResp, shared |-> FALSE, eseq |-> <<>>, need |-> 0,
     given |-> <<>>, sent |-> <<>>]

\* Config.TTL of the cache under test, in ticks
TTL == 1

\* Requests the proxy serves in one run
MaxReqs == 3
NStoppers == 2       \* goroutines calling Checker.Stop()
MaxChain == 3        \* a FilterChain holds 0..MaxChain filters
NCallers == 2        \* goroutines calling into one cache at the same time
MaxCalls == 2
NHandlers == 3        \* calls of the cache by one goroutine

\* New(config), without the maintenance goroutine (see evictExpired)
NewCache(ms, t) ==
    /\ maxSize = ms
    /\ ttl = t
    /\ items = <<>>
    /\ size = 0
    /\ clast = NoCall

\* No goroutine is inside the breaker, no history yet
InitProcs ==
    /\ pc = [p \in Procs |-> "idle"]
    /\ inWrap = [p \in Procs |-> FALSE]
    /\ ret = [p \in Procs |-> "none"]
    /\ invoked = [p \in Procs |-> FALSE]
    /\ status = [p \in Procs |-> -1]
    /\ code = [p \in Procs |-> 0]
    /\ nrec = [p \in Procs |-> 0]
    /\ outcome = [p \in Procs |-> "none"]
    /\ trials = 0
    /\ armed = FALSE
    /\ last = [op |-> "none", from |-> StateClosed, fails |-> 0, ret |-> "none"]

(***************************************************************************)
(* Data of the proxy (internal/proxy): one service, one request at a time. *)
(***************************************************************************)
\* p.metrics before any request
NoMetrics == [requests |-> 0, cacheHits |-> 0, cacheMisses |-> 0, errors |-> 0]

\* What a http.ResponseWriter has been given: status, Cache-Control header
\* and the bytes written (StatusCode 0: nothing yet)
NoOut == [StatusCode |-> 0, CacheControl |-> "", Body |-> <<>>]

\* The network before any outbound request
NoBackend == [target |-> "", calls |-> 0]

\* No request in the proxy.  While one is served: req, the request; allowed,
\* what cb.Allow() returned; trace, the steps taken for it in their order
\* ("allow", "lookup", "forward"); status, sw.status of Wrap's statusWriter
\* (-1: WriteHeader not called); out, what the client has been sent; hit and
\* got, the result of cache.Get; fwd, how forwarding ended and answer, the
\* response it returned; stored, the response was handed to cache.Set;
\* recorded, the call Wrap made on the breaker; m0 and b0, the metrics and
\* the network when the request arrived; lat and fat, the time of the cache
\* lookup and of the forwarding (-1: none); logged, logRequest has been
\* called for it; rejected, the text of the error a filter returned.  The
\* steps in trace: "allow", "filter", "lookup", "forward".
IdleProxy ==
    [pc |-> "idle", req |-> NoReq, allowed |-> FALSE, trace |-> <<>>,
     status |-> -1, out |-> NoOut, hit |-> FALSE, got |-> NoOut, fwd |-> "none",
     answer |-> NoOut, stored |-> FALSE, recorded |-> "none", m0 |-> NoMetrics,
     b0 |-> NoBackend, lat |-> -1, fat |-> -1, logged |-> FALSE, rejected |-> ""]

\* No proxy in front of the breaker or the cache under test
NoProxy ==
    /\ cfg = [breaker |-> FALSE, cache |-> FALSE]
    /\ proxy = IdleProxy
    /\ metrics = NoMetrics
    /\ backend = NoBackend
    /\ log = <<>>

\* The services of the proxy's configuration
Services == {"s1", "s2"}

\* circuitbreaker.New(name, maxFailures, timeout) as a value
NewBreaker(mf, to) ==
    [maxFailures |-> mf, timeout |-> to, state |-> StateClosed, failures |-> 0,
     lastFailure |-> ZeroTime]

\* No request among the services.  While one is served: svc, the service it
\* is routed to; allowed, what Allow() returned; status, sw.status of Wrap; and
\* cbs0, history: the breakers when the request arrived
IdleSvc ==
    [pc |-> "idle", svc |-> "", allowed |-> FALSE, status |-> -1, cbs0 |-> <<>>]

\* Proxy.initialize: one breaker per service (MaxFailures 2, a timeout of one
\* tick), no request
NoServices ==
    /\ cbs = [s \in Services |-> NewBreaker(2, 1)]
    /\ sreq = IdleSvc

(***************************************************************************)
(* Data of the health checker (internal/health/checker.go).                *)
(***************************************************************************)
\* Status{Healthy, LastCheck, Message}
Status(h, at, msg) == [Healthy |-> h, LastCheck |-> at, Message |-> msg]

\* Status{}
ZeroStatus == Status(FALSE, ZeroTime, "")

\* url.Parse of the service URLs of the configurations below
ParseURL(u) ==
    CASE u = "http://s1" -> [Scheme |-> "http", Host |-> "s1"]
      [] u = "http://s2" -> [Scheme |-> "http", Host |-> "s2"]
      [] u = "//s2" -> [Scheme |-> "", Host |-> "s2"]
      [] OTHER -> [Scheme |-> "", Host |-> ""]

\* validateURL(rawURL): its error, "" when the URL is valid
validateURL(u) ==
    IF ParseURL(u).Scheme = "" THEN "missing scheme"
    ELSE IF ParseURL(u).Host = "" THEN "missing host"
    ELSE ""

\* The service maps handed to NewChecker
ServiceMaps ==
    { [s \in Services |-> "http://" \o s],
      [s \in Services |-> IF s = "s2" THEN "//s2" ELSE "http://" \o s] }

\* What c.client.Do and the reading of the body may end in: a response with
\* the status named, no connection ("refused"), or a response with status 200
\* whose body cannot be read ("reset")
AllProbeResults == {"200", "204", "500", "refused", "reset"}

\* The results the probes of the running checker are drawn from
ProbeResults == {"200", "500", "refused"}

\* resp.Status of a response
StatusLine(res) ==
    CASE res = "204" -> "204 No Content"
      [] res = "500" -> "500 Internal Server Error"
      [] OTHER -> "200 OK"

\* Goroutines calling Stop()
Stoppers == 1..NStoppers

\* No goroutine of checkServices for a service.  While one runs: at, the
\* time.Now() checkService started with; before, history: what GetStatus
\* returned for the service when the probe began; healthy, what the goroutine
\* adds to the counters of the cycle
NoProbe ==
    [pc |-> "none", at |-> ZeroTime, before |-> [status |-> ZeroStatus, ok |-> FALSE],
     healthy |-> FALSE]

\* NewChecker(services, interval); nothing is started and nobody calls
NewChecker(services) ==
    /\ checker = [services |-> services, status |-> <<>>, stopCh |-> "open",
                  metrics |-> [healthyServices |-> 0, unhealthyServices |-> 0,
                               totalChecks |-> 0, lastCheckDuration |-> 0]]
    /\ ticker = FALSE
    /\ loop = [pc |-> "none", start |-> ZeroTime]
    /\ probes = [s \in Services |-> NoProbe]
    /\ stops = [g \in Stoppers |-> "idle"]
    /\ health = [Status |-> "", Services |-> <<>>, checked |-> <<>>,
                 before |-> <<>>, after |-> <<>>]
    /\ hhist = [done |-> <<>>, res |-> <<>>, closes |-> 0, late |-> FALSE, started |-> 0]

\* The checker of Proxy.initialize, left alone
NoHealth == NewChecker([s \in Services |-> "http://" \o s])

(***************************************************************************)
(* Data of the filter chain (pkg/filters/filter.go).                       *)
(***************************************************************************)
\* Goroutines calling into the cache at the same time
Callers == 1..NCallers

\* A goroutine outside the cache that has made n calls.  Inside a call: key;
\* item, the cacheItem built (Set) or loaded (Get), and gen, history: which of
\* the entries stored under key it is; cand, i and freed, the candidates,
\* position and spaceFreed of evict; keys, the keysToEvict of evictExpired
IdleCaller(n) ==
    [pc |-> "idle", calls |-> n, key |-> <<>>, item |-> <<>>, gen |-> 0,
     cand |-> <<>>, i |-> 0, freed |-> 0, keys |-> {}]

\* No goroutine is inside the cache
NoCallers ==
    /\ callers = [g \in Callers |-> IdleCaller(0)]
    /\ gens = [k \in {} |-> 0]
    /\ subs = [e \in {} |-> 0]

\* The filters given to a chain: each has a name, notes that it ran, and
\* returns an error or nil (testFilter, orderTestFilter of filter_test.go)
Filters == [name : {"first", "second"}, shouldError : BOOLEAN]

\* No call of FilterChain.Process yet.  After one: order, the names of the
\* filters that ran, in order; ran, how many ran; err, the error returned
\* ("": nil); chain, history: fc.filters during the call
NoRun == [called |-> FALSE, order |-> <<>>, ran |-> 0, err |-> "", chain |-> <<>>]

\* NewFilterChain(filters...)
NewFilterChain(filters) ==
    /\ fc = filters
    /\ inserted = filters
    /\ frun = NoRun

\* No filter chain in use
NoFilters == NewFilterChain(<<>>)

\* The goroutines of the HTTP server that serve requests of the services
Handlers == 1..NHandlers

\* No request is being served; the gauge is a zero atomic.Int64
NoGauge ==
    /\ activeRequests = 0
    /\ inside = [h \in Handlers |-> "out"]

\* Nothing but the component under test is in use
NoMore == NoFilters /\ NoCallers /\ NoGauge

\* A breaker under test; the cache is left empty and untouched
Init ==
    /\ now = 0
    /\ \E mf \in 1..MaxThreshold, to \in 1..MaxTimeout : New(mf, to)
    /\ InitProcs
    /\ NewCache(0, 1)
    /\ NoProxy
    /\ NoServices
    /\ NoHealth
    /\ NoMore

\* time.Since(t) > d, with the zero time infinitely far in the past
SinceExceeds(t, d) == t = ZeroTime \/ now - t > d

\* The history flag armed after a step that leaves the clock at n and the last
\* failure at lf: it drops as soon as more than timeout has elapsed since lf.
StillArmed(a, n, lf) == a /\ ~(lf = ZeroTime \/ n - lf > timeout)

\* The clock advances.
Tick ==
    /\ now < MaxTime
    /\ now' = now + 1
    /\ armed' = StillArmed(armed, now', lastFailure)
    /\ UNCHANGED <<cbVars, procVars, trials, last, cacheVars, proxyVars>>

(***************************************************************************)
(* CircuitBreaker.  Success, Failure and Reset hold cb.mutex.Lock() for    *)
(* their whole body, so each is one atomic step.  Allow holds the read     *)
(* lock for its check, releases it, and takes the write lock separately    *)
(* for the transition to HalfOpen: two steps.                              *)
(***************************************************************************)

\* cb.setState(newState); onStateChange is never set
setState(newState) == state' = newState

\* Mutant: the HalfOpen branch closes the breaker but keeps the failure count
SuccessCB_KeepsCount ==
    /\ IF state = StateHalfOpen
         THEN setState(StateClosed)
         ELSE UNCHANGED state
    /\ UNCHANGED <<maxFailures, timeout, lastFailure, failures>>

\* Mutant: every Success() resets the failure count (the other counting policy)
SuccessCB_ResetsCount ==
    /\ IF state = StateHalfOpen
         THEN setState(StateClosed)
         ELSE UNCHANGED state
    /\ failures' = 0
    /\ UNCHANGED <<maxFailures, timeout, lastFailure>>

\* Body of Success() under the lock
SuccessCB ==
    /\ IF state = StateHalfOpen
         THEN setState(StateClosed) /\ failures' = 0
         ELSE UNCHANGED <<state, failures>>
    /\ UNCHANGED <<maxFailures, timeout, lastFailure>>

\* Body of Failure() under the lock
FailureCB ==
    /\ failures < MaxCount
    /\ failures' = failures + 1
    /\ lastFailure' = now
    /\ IF state = StateClosed /\ failures' >= maxFailures
         THEN setState(StateOpen)
         ELSE IF state = StateHalfOpen
                THEN setState(StateOpen)
                ELSE UNCHANGED state
    /\ UNCHANGED <<maxFailures, timeout>>

\* Mutant: Reset() closes the breaker and keeps the failure count
ResetCB_KeepsCount ==
    /\ setState(StateClosed)
    /\ UNCHANGED <<maxFailures, timeout, lastFailure, failures>>

\* Body of Reset() under the lock
ResetCB ==
    /\ failures' = 0
    /\ setState(StateClosed)
    /\ UNCHANGED <<maxFailures, timeout, lastFailure>>

\* The switch of Allow() under the read lock: "true", "false", or "upgrade"
\* when the breaker is Open and the timeout has passed (Allow then drops the
\* read lock and asks for the write lock).
AllowDecision ==
    IF state = StateOpen
      THEN IF SinceExceeds(lastFailure, timeout) THEN "upgrade" ELSE "false"
      ELSE "true"

\* History: an Allow() that returns true counts as a trial when it found the
\* breaker Open (timeout passed) or HalfOpen.
CountTrial(t) == IF t < MaxTrials THEN t + 1 ELSE t

\* History: the call being made, the state and count it found, and what it
\* returned (Allow only)
Call(op, r) == [op |-> op, from |-> state, fails |-> failures, ret |-> r]

\* History flag after a Failure().
ArmedAfterFailure ==
    IF state = StateClosed /\ state' = StateOpen
      THEN StillArmed(TRUE, now, lastFailure')
      ELSE StillArmed(armed, now, lastFailure')

\* cb.Success() called directly by goroutine p
Success(p) ==
    /\ pc[p] = "idle"
    /\ SuccessCB
    /\ trials' = 0
    /\ last' = Call("Success", "none")
    /\ UNCHANGED <<cacheVars, proxyVars, now, procVars, armed>>

\* cb.Failure() called directly by goroutine p
Failure(p) ==
    /\ pc[p] = "idle"
    /\ FailureCB
    /\ trials' = 0
    /\ armed' = ArmedAfterFailure
    /\ last' = Call("Failure", "none")
    /\ UNCHANGED <<cacheVars, proxyVars, now, procVars>>

\* cb.Reset() called directly by goroutine p
Reset(p) ==
    /\ pc[p] = "idle"
    /\ ResetCB
    /\ trials' = 0
    /\ armed' = FALSE
    /\ last' = Call("Reset", "none")
    /\ UNCHANGED <<cacheVars, proxyVars, now, procVars>>

\* First part of Allow(): RLock, the switch on cb.state, RUnlock.
\* w: the call comes from Wrap's handler.
AllowCheck(p, w) ==
    /\ pc[p] = "idle"
    /\ inWrap' = [inWrap EXCEPT ![p] = w]
    /\ LET d == AllowDecision IN
         \/ /\ d = "upgrade"
            /\ pc' = [pc EXCEPT ![p] = "upgrade"]
            /\ UNCHANGED <<ret, invoked, code, trials, last>>
         \/ /\ d = "true"
            /\ ret' = [ret EXCEPT ![p] = IF w THEN "true" ELSE "none"]
            /\ last' = Call("Allow", "true")
            /\ trials' = IF state = StateHalfOpen THEN CountTrial(trials) ELSE trials
            \* Wrap: sw := &statusWriter{...}; next.ServeHTTP(sw, r)
            /\ pc' = [pc EXCEPT ![p] = IF w THEN "handler" ELSE "idle"]
            /\ invoked' = [invoked EXCEPT ![p] = w]
            /\ UNCHANGED code
         \/ /\ d = "false"
            /\ ret' = [ret EXCEPT ![p] = IF w THEN "false" ELSE "none"]
            /\ last' = Call("Allow", "false")
            \* Wrap: http.Error(w, "Service Unavailable", 503); return
            /\ pc' = [pc EXCEPT ![p] = IF w THEN "done" ELSE "idle"]
            /\ code' = [code EXCEPT ![p] = IF w THEN 503 ELSE 0]
            /\ UNCHANGED <<invoked, trials>>
    /\ UNCHANGED <<cacheVars, proxyVars, now, cbVars, status, nrec, outcome, armed>>

\* Second part of Allow(): Lock, recheck, setState(HalfOpen), Unlock, RLock,
\* return true.
AllowUpgrade(p) ==
    /\ pc[p] = "upgrade"
    /\ IF state = StateOpen THEN setState(StateHalfOpen) ELSE UNCHANGED state
    /\ ret' = [ret EXCEPT ![p] = IF inWrap[p] THEN "true" ELSE "none"]
    /\ trials' = CountTrial(trials)
    /\ last' = Call("Allow", "true")
    /\ pc' = [pc EXCEPT ![p] = IF inWrap[p] THEN "handler" ELSE "idle"]
    /\ invoked' = [invoked EXCEPT ![p] = inWrap[p]]
    /\ UNCHANGED <<cacheVars, proxyVars, now, maxFailures, timeout, failures, lastFailure,
                   inWrap, status, code, nrec, outcome, armed>>

\* Wrap: the wrapped handler returns, leaving s in sw.status
HandlerReturn(p, s) ==
    /\ pc[p] = "handler"
    /\ status' = [status EXCEPT ![p] = s]
    /\ pc' = [pc EXCEPT ![p] = "record"]
    /\ UNCHANGED <<cacheVars, proxyVars, now, cbVars, inWrap, ret, invoked, code, nrec, outcome, histVars>>

\* Mutant: 500 itself is not classified as a failure
IsFailureStatus_Above500(s) == s > 500

\* Wrap: if sw.status >= 500 { cb.Failure() } else { cb.Success() }
IsFailureStatus(s) == s >= 500

WrapRecord(p) ==
    /\ pc[p] = "record"
    /\ IF IsFailureStatus(status[p])
         THEN /\ FailureCB
              /\ armed' = ArmedAfterFailure
              /\ last' = Call("Failure", "none")
              /\ outcome' = [outcome EXCEPT ![p] = "failure"]
         ELSE /\ SuccessCB
              /\ UNCHANGED armed
              /\ last' = Call("Success", "none")
              /\ outcome' = [outcome EXCEPT ![p] = "success"]
    /\ trials' = 0
    /\ nrec' = [nrec EXCEPT ![p] = @ + 1]
    /\ pc' = [pc EXCEPT ![p] = "done"]
    /\ UNCHANGED <<cacheVars, proxyVars, now, inWrap, ret, invoked, status, code>>

\* Wrap's handler function has returned; the goroutine serves its next request
WrapDone(p) ==
    /\ pc[p] = "done"
    /\ pc' = [pc EXCEPT ![p] = "idle"]
    /\ inWrap' = [inWrap EXCEPT ![p] = FALSE]
    /\ ret' = [ret EXCEPT ![p] = "none"]
    /\ invoked' = [invoked EXCEPT ![p] = FALSE]
    /\ status' = [status EXCEPT ![p] = -1]
    /\ code' = [code EXCEPT ![p] = 0]
    /\ nrec' = [nrec EXCEPT ![p] = 0]
    /\ outcome' = [outcome EXCEPT ![p] = "none"]
    /\ UNCHANGED <<cacheVars, proxyVars, now, cbVars, histVars>>

(***************************************************************************)
(* Response cache (internal/cache/cache.go).  Set, Get and the sweep are   *)
(* modelled as called one at a time: each action is one whole call.        *)
(***************************************************************************)

\* generateKey(r): r.Method + r.URL.String()
generateKey(r) == <<r.Method, r.URL>>

\* Mutant: the status of the response is not looked at
isCacheable_AnyStatus(r, resp) ==
    /\ r.Method = "GET"
    /\ resp.CacheControl # "no-store"

\* isCacheable(r, resp)
isCacheable(r, resp) ==
    /\ r.Method = "GET"
    /\ resp.StatusCode = 200
    /\ resp.CacheControl # "no-store"

\* io.ReadAll(resp.Body): the bytes the reader has not delivered yet
ReadAll(body) == SubSeq(body.data, body.pos + 1, Len(body.data))

\* Mutant: the headers are not copied into the new response
copyResponseWithBody_NoHeaders(resp, body) ==
    [StatusCode |-> resp.StatusCode, CacheControl |-> "", Body |-> NewBuffer(body)]

\* copyResponseWithBody(resp, body): a new response with resp's status and
\* headers and a fresh reader over body
copyResponseWithBody(resp, body) ==
    [StatusCode |-> resp.StatusCode, CacheControl |-> resp.CacheControl,
     Body |-> NewBuffer(body)]

\* Mutant: the entry counts as expired from its expiry time on
Expired_AtDeadline(item) == now >= item.expires

\* time.Now().After(item.expires)
Expired(item) == now > item.expires

\* Sum of the sizes of the entries of the map its
RECURSIVE SumSizes(_)
SumSizes(its) ==
    IF DOMAIN its = {} THEN 0
    ELSE LET k == CHOOSE x \in DOMAIN its : TRUE
         IN its[k].size + SumSizes([x \in DOMAIN its \ {k} |-> its[x]])

\* The map its without key k (sync.Map Delete / LoadAndDelete)
Delete(its, k) == [x \in DOMAIN its \ {k} |-> its[x]]

\* The map its with key k bound to item (sync.Map Store)
Store(its, k, item) == [x \in DOMAIN its \cup {k} |-> IF x = k THEN item ELSE its[x]]

\* Mutant: the hit counts are left out of the score (least recently used)
HigherScore_IgnoresHits(a, b) == (now - a.lastUsed) > (now - b.lastUsed)

\* evict: score(a) > score(b), where score = time.Since(lastUsed) / (hits + 1)
HigherScore(a, b) ==
    (now - a.lastUsed) * (b.hits + 1) > (now - b.lastUsed) * (a.hits + 1)

\* evict: the orders sort.Slice may leave the candidates in: every order of
\* the keys in which no later candidate has a higher score than an earlier
\* one (Range order and the order of equal scores are not determined)
EvictOrders(its) ==
    LET n == Cardinality(DOMAIN its) IN
    {o \in [1..n -> DOMAIN its] :
        /\ \A i, j \in 1..n : i # j => o[i] # o[j]
        /\ \A i, j \in 1..n : i < j => ~HigherScore(its[o[j]], its[o[i]])}

\* evict: the loop over the sorted candidates from position i on
RECURSIVE EvictLoop(_, _, _, _, _, _)
EvictLoop(order, i, its, sz, spaceFreed, needed) ==
    IF i > Len(order) \/ spaceFreed >= needed
      THEN [items |-> its, size |-> sz, evicted |-> i - 1]
      ELSE LET k == order[i] IN
           EvictLoop(order, i + 1, Delete(its, k), sz - its[k].size,
                     spaceFreed + its[k].size, needed)

\* c.evict(needed), with the candidates sorted as order
evict(order, needed) == EvictLoop(order, 1, items, size, 0, needed)

\* Set: c.maxSize > 0 && newSize > c.maxSize
NeedsEviction(sz, n) == maxSize > 0 /\ sz + n > maxSize

\* Mutant: the second check forgets the incoming item's size
StillFull_IgnoresItem(sz, n) == sz > maxSize

\* Set: c.size.Load()+item.size > c.maxSize, after eviction
StillFull(sz, n) == sz + n > maxSize

\* The cacheItem Set builds; response is the pointer Set was given, so the
\* field is the caller's response object (see MutateStored)
NewItem(resp, body) ==
    [response |-> [StatusCode |-> resp.StatusCode, CacheControl |-> resp.CacheControl],
     body |-> body, size |-> Len(body), expires |-> now + ttl, lastUsed |-> now,
     hits |-> 0]

\* Proxy.writeResponse(w, resp) as the client sees it: headers, status, and the
\* bytes io.Copy reads from resp.Body when it is not nil
Written(resp) ==
    [StatusCode |-> resp.StatusCode, CacheControl |-> resp.CacheControl,
     Body |-> IF resp.Body = NilBody THEN <<>> ELSE ReadAll(resp.Body)]

\* Mutant: the body that was read is not put back into the response
copyResponse_NoRestore(resp) ==
    [body |-> ReadAll(resp.Body),
     resp |-> [resp EXCEPT !.Body = [data |-> resp.Body.data,
                                     pos |-> Len(resp.Body.data)]]]

\* copyResponse(resp) for a non-nil Body: the bytes read from resp.Body, and
\* resp with its Body replaced by a new reader over those bytes
copyResponse(resp) ==
    [body |-> ReadAll(resp.Body),
     resp |-> [resp EXCEPT !.Body = NewBuffer(ReadAll(resp.Body))]]

\* What Set(r, resp) leaves and returns when evict sorts its candidates as
\* order: [items, size, stored, err, evicted, eseq], and left, the caller's
\* response object after the call
SetOutcome(r, resp, order) ==
    IF ~isCacheable(r, resp)
      THEN [items |-> items, size |-> size, stored |-> FALSE, err |-> "", evicted |-> 0,
            eseq |-> <<>>, left |-> resp]
    ELSE IF resp.Body = NilBody
      THEN [items |-> items, size |-> size, stored |-> FALSE,
            err |-> "failed to copy response", evicted |-> 0, eseq |-> <<>>,
            left |-> resp]
    ELSE
      LET cp == copyResponse(resp)
          item == NewItem(cp.resp, cp.body)
          ev == IF NeedsEviction(size, item.size)
                  THEN evict(order, item.size)
                  ELSE [items |-> items, size |-> size, evicted |-> 0]
      IN IF NeedsEviction(size, item.size) /\ StillFull(ev.size, item.size)
           THEN [items |-> ev.items, size |-> ev.size, stored |-> FALSE,
                 err |-> "cache full", evicted |-> ev.evicted,
                 eseq |-> SubSeq(order, 1, ev.evicted), left |-> cp.resp]
           ELSE [items |-> Store(ev.items, generateKey(r), item),
                 size |-> ev.size + item.size, stored |-> TRUE, err |-> "",
                 evicted |-> ev.evicted, eseq |-> SubSeq(order, 1, ev.evicted),
                 left |-> cp.resp]

\* The cacheability policy forbids storing resp for r: the request is not a
\* GET, the status is not 200, or the response carries Cache-Control: no-store
PolicyForbids(r, resp) ==
    r.Method # "GET" \/ resp.StatusCode # 200 \/ resp.CacheControl = "no-store"

\* History after Set(r, resp) with outcome o: the input and the time of a Set
\* that stored its entry, the size before a Set that failed, the map and the
\* counter before a Set of a response the policy forbids to store
AfterSet(r, resp, o) ==
    LET h ==
        IF o.stored
          THEN [NoCall EXCEPT !.op = "Set", !.req = r, !.stored = TRUE, !.in = resp,
                              !.evicted = o.evicted, !.at = now,
                              !.nostore = PolicyForbids(r, resp),
                              !.eseq = o.eseq,
                              !.need = IF o.evicted > 0 THEN Len(ReadAll(resp.Body)) ELSE 0,
                              !.pre = IF o.evicted > 0 THEN [items |-> items, size |-> 0]
                                      ELSE NoCall.pre]
          ELSE IF o.err = "cache full"
            THEN [NoCall EXCEPT !.op = "Set", !.req = r, !.err = o.err,
                                !.evicted = o.evicted, !.sizeBefore = size,
                                !.nostore = PolicyForbids(r, resp),
                                !.eseq = o.eseq, !.at = now,
                                !.need = Len(ReadAll(resp.Body)),
                                !.pre = [items |-> items, size |-> 0]]
          ELSE IF PolicyForbids(r, resp)
            THEN [NoCall EXCEPT !.op = "Set", !.req = r, !.nostore = TRUE, !.err = o.err,
                                !.pre = [items |-> items, size |-> size]]
            ELSE [NoCall EXCEPT !.op = "Set", !.err = o.err]
    IN [h EXCEPT !.given = IF resp.Body = NilBody THEN <<>> ELSE ReadAll(resp.Body),
                 !.sent = Written(o.left).Body]

\* The caller's response object after c.Set(r, resp): its Body has been read
\* and replaced unless Set returned before copyResponse or copyResponse failed
LeftBySet(r, resp) ==
    IF isCacheable(r, resp) /\ resp.Body # NilBody THEN copyResponse(resp).resp ELSE resp

\* What c.Set(r, resp) does to the cache
SetStep(r, resp) ==
    \E o \in {SetOutcome(r, resp, order) : order \in EvictOrders(items)} :
        /\ items' = o.items
        /\ size' = o.size
        /\ clast' = AfterSet(r, resp, o)

\* c.Set(r, resp), called on the cache directly
Set(r, resp) ==
    /\ SetStep(r, resp)
    /\ UNCHANGED <<now, maxSize, ttl, breakerVars, proxyVars>>

\* History after Get(r): when the call before was a Set of the same key that
\* stored its entry or was forbidden to, keep that Set's record next to what Get
\* found and returned
AfterGet(r, hit, got) ==
    LET key == generateKey(r)
        base == IF /\ clast.op = "Set" /\ (clast.stored \/ clast.nostore)
                   /\ generateKey(clast.req) = key
                  THEN [clast EXCEPT !.op = "Get", !.afterSet = TRUE, !.evicted = 0,
                                     !.eseq = <<>>, !.need = 0,
                                     !.given = <<>>, !.sent = <<>>,
                                     !.pre = IF clast.nostore THEN @ ELSE NoCall.pre]
                  ELSE [NoCall EXCEPT !.op = "Get"]
    IN IF key \notin DOMAIN items
         THEN [base EXCEPT !.hit = hit, !.got = got, !.sizeBefore = size]
         ELSE [base EXCEPT !.hit = hit, !.got = got, !.req = r, !.gat = now,
                           !.copy = got,
                           !.shared = hit /\ items[key].response.CacheControl # "",
                           !.found = TRUE, !.exp = items[key].expires,
                           !.fsize = items[key].size,
                           !.sizeBefore = size]

\* c.Get(r): the map and the counter it leaves, whether it hit and what it
\* returned (ok: the entry's hit count is below the bound of the model)
GetOutcome(r) ==
    LET key == generateKey(r) IN
    IF key \notin DOMAIN items
      THEN [ok |-> TRUE, items |-> items, size |-> size, hit |-> FALSE, got |-> NoResp]
      ELSE LET item == items[key] IN
           IF Expired(item)
             THEN [ok |-> TRUE, items |-> Delete(items, key),
                   size |-> size - item.size, hit |-> FALSE, got |-> NoResp]
             ELSE [ok |-> item.hits < MaxHits,
                   items |-> [items EXCEPT ![key].hits = @ + 1,
                                           ![key].lastUsed = now],
                   size |-> size, hit |-> TRUE,
                   got |-> copyResponseWithBody(item.response, item.body)]

\* What c.Get(r) does to the cache
GetStep(r) ==
    LET o == GetOutcome(r) IN
    /\ o.ok
    /\ items' = o.items
    /\ size' = o.size
    /\ clast' = AfterGet(r, o.hit, o.got)

\* c.Get(r), called on the cache directly
Get(r) ==
    /\ GetStep(r)
    /\ UNCHANGED <<now, maxSize, ttl, breakerVars, proxyVars>>

\* c.evictExpired(), run by the maintenance goroutine on its ticker
evictExpired ==
    LET keysToEvict == {k \in DOMAIN items : Expired(items[k])} IN
    /\ items' = [k \in DOMAIN items \ keysToEvict |-> items[k]]
    /\ size' = size - SumSizes([k \in keysToEvict |-> items[k]])
    /\ clast' = NoCall
    /\ UNCHANGED <<now, maxSize, ttl, breakerVars, proxyVars>>

(***************************************************************************)
(* The callers of the cache.  Set keeps the pointer it is given             *)
(* (item.response = resp), so the entry's status and headers are the        *)
(* caller's response object; Get returns a new response with a new header   *)
(* map whose values are the entry's slices (newResp.Header[k] = v) and a    *)
(* new reader over the entry's body.                                        *)
(***************************************************************************)

\* The caller of the Set that stored the entry under key writes to the
\* response it passed: resp.StatusCode = 500, or
\* resp.Header.Set("Cache-Control", "private")
MutateStored(key, field) ==
    /\ key \in DOMAIN items
    /\ \/ /\ field = "StatusCode"
          /\ items[key].response.StatusCode # 500
          /\ items' = [items EXCEPT ![key].response.StatusCode = 500]
          /\ UNCHANGED clast
       \/ /\ field = "Header"
          /\ items[key].response.CacheControl # "private"
          /\ items' = [items EXCEPT ![key].response.CacheControl = "private"]
          /\ clast' = IF clast.op = "Get" /\ clast.hit /\ generateKey(clast.req) = key
                        THEN [clast EXCEPT !.shared = FALSE]
                        ELSE clast
    /\ UNCHANGED <<now, maxSize, ttl, size, breakerVars, proxyVars>>

\* The caller of the last Get reads the body of the response it got to the end
ConsumeBody ==
    /\ clast.op = "Get" /\ clast.hit
    /\ clast.copy.Body.pos < Len(clast.copy.Body.data)
    /\ clast' = [clast EXCEPT !.copy.Body.pos = Len(clast.copy.Body.data)]
    /\ UNCHANGED <<now, maxSize, ttl, items, size, breakerVars, proxyVars>>

\* The caller of the last Get sets a header of the response it got:
\* Header.Set("Cache-Control", "private") puts a new slice in the copy's map
SetCopyHeader ==
    /\ clast.op = "Get" /\ clast.hit
    /\ clast.copy.CacheControl # "private"
    /\ clast' = [clast EXCEPT !.copy.CacheControl = "private", !.shared = FALSE]
    /\ UNCHANGED <<now, maxSize, ttl, items, size, breakerVars, proxyVars>>

\* The caller of the last Get overwrites a header value of the response it
\* got in place: Header["Cache-Control"][0] = "private" writes to the slice
\* the entry's header map holds too
WriteCopyHeaderInPlace ==
    /\ clast.op = "Get" /\ clast.hit /\ clast.shared
    /\ clast.copy.CacheControl # "private"
    /\ clast' = [clast EXCEPT !.copy.CacheControl = "private"]
    /\ items' = [items EXCEPT ![generateKey(clast.req)].response.CacheControl = "private"]
    /\ UNCHANGED <<now, maxSize, ttl, size, breakerVars, proxyVars>>

\* The clock advances (cache under test)
TickCache ==
    /\ now < MaxTime
    /\ now' = now + 1
    /\ UNCHANGED <<breakerVars, cacheVars, proxyVars>>

\* A cache under test; the breaker is left idle
InitCache ==
    /\ now = 0
    /\ New(1, 1)
    /\ InitProcs
    /\ \E ms \in 1..MaxCacheSize : NewCache(ms, TTL)
    /\ NoProxy
    /\ NoServices
    /\ NoHealth
    /\ NoMore

NextCache ==
    \/ TickCache
    \/ \E c \in SetCalls : Set(c[1], c[2])
    \/ \E r \in Requests : Get(r)
    \/ evictExpired

SpecCache == InitCache /\ [][NextCache]_vars

\* The cache with callers that go on using the responses they passed and
\* got.  The Sets of responses the policy forbids to store, which leave the
\* cache as it is, are not repeated here.
NextCacheCallers ==
    \/ TickCache
    \/ \E c \in SetCalls : ~PolicyForbids(c[1], c[2]) /\ Set(c[1], c[2])
    \/ \E r \in Requests : Get(r)
    \/ evictExpired
    \/ \E r \in Requests, f \in {"StatusCode", "Header"} : MutateStored(generateKey(r), f)
    \/ ConsumeBody
    \/ SetCopyHeader
    \/ WriteCopyHeaderInPlace

SpecCacheCallers == InitCache /\ [][NextCacheCallers]_vars

(***************************************************************************)
(* Cache properties (calls made one at a time).                            *)
(***************************************************************************)

\* C7: with maxSize > 0, the sizes of the entries in the map never add up to
\* more than maxSize.
C7_SizeBound == maxSize > 0 => SumSizes(items) <= maxSize

C7_Witness ==
    /\ maxSize > 0
    /\ clast.op = "Set" /\ clast.stored /\ clast.evicted >= 1
    /\ generateKey(clast.req) \in DOMAIN items
    /\ SumSizes(items) = maxSize

\* C8: the running size counter equals the sum of the sizes of the entries
\* in the map.
C8_SizeEqualsSum == size = SumSizes(items)

\* C9: after a Set that returned the cache-full error, the entry is not in
\* the map and the size counter is what it was before the call.
C9_FullSetLeavesSize ==
    clast.op = "Set" /\ clast.err = "cache full"
      => /\ generateKey(clast.req) \notin DOMAIN items
         /\ size = clast.sizeBefore

C11_TTLExpiry ==
    /\ (clast.op = "Set" /\ clast.stored
          => items[generateKey(clast.req)].expires = clast.at + ttl)
    /\ (clast.op = "Get" /\ clast.found /\ clast.gat <= clast.exp
          => /\ clast.hit
             /\ generateKey(clast.req) \in DOMAIN items
             /\ size = clast.sizeBefore)
    /\ (clast.op = "Get" /\ clast.found /\ clast.gat > clast.exp
          => /\ ~clast.hit
             /\ generateKey(clast.req) \notin DOMAIN items
             /\ size = clast.sizeBefore - clast.fsize)
    /\ (clast.op = "Get" /\ ~clast.found
          => ~clast.hit /\ size = clast.sizeBefore)

C11_Witness ==
    /\ clast.op = "Get" /\ clast.found /\ clast.gat = clast.exp + 1
    /\ ~clast.hit /\ clast.fsize >= 1
    /\ size = clast.sizeBefore - clast.fsize

\* What Get returns for an unexpired entry of the map
Cached(item) == copyResponseWithBody(item.response, item.body)

\* A Set of a response the policy forbids to store stores nothing, returns no
\* error and leaves the map and the counter as they were
ForbiddenSetIsNoOp ==
    clast.op = "Set" /\ clast.nostore
      => /\ ~clast.stored /\ clast.err = ""
         /\ items = clast.pre.items /\ size = clast.pre.size

\* C12 as stated: a Set of a response the policy forbids to store is a no-op
\* without error, and the Get for that request that follows misses.
C12_ForbiddenSetThenMiss ==
    /\ ForbiddenSetIsNoOp
    /\ (clast.op = "Get" /\ clast.afterSet /\ clast.nostore => ~clast.hit)

\* C12 amended: a Set of a response the policy forbids to store is a no-op
\* without error, and the Get for that request that follows answers from the
\* map as it was before the Set: a miss, unless the map already held an
\* unexpired entry under the key, which Get then returns.
C12_ForbiddenSetIsNoOp ==
    /\ ForbiddenSetIsNoOp
    /\ (clast.op = "Get" /\ clast.afterSet /\ clast.nostore
          => LET key == generateKey(clast.req)
                 old == clast.pre.items
             IN /\ ~clast.stored
                /\ clast.hit <=> (key \in DOMAIN old /\ clast.gat <= old[key].expires)
                /\ clast.hit => clast.got = Cached(old[key]))

C12_Witness ==
    /\ clast.op = "Get" /\ clast.afterSet /\ clast.nostore /\ ~clast.hit
    /\ clast.req.Method = "GET"
    /\ clast.pre.items # <<>>
    /\ generateKey(clast.req) \notin DOMAIN clast.pre.items

\* Sum of the sizes that the entries of old under the first n keys of seq have
RECURSIVE Freed(_, _, _)
Freed(old, seq, n) == IF n = 0 THEN 0 ELSE old[seq[n]].size + Freed(old, seq, n - 1)

\* At time t, entry a has a strictly higher score than entry b, the score
\* being (t - lastUsed) / (hits + 1)
ScoreAbove(a, b, t) ==
    (t - a.lastUsed) * (b.hits + 1) > (t - b.lastUsed) * (a.hits + 1)

\* C14: a Set that evicted for an incoming entry of size need removed the
\* keys eseq of the map it found, one after the other: no key was removed
\* while a key with a strictly higher score was still in the map, every key
\* was removed while the bytes freed so far were below need, and removal
\* went on until the bytes freed reached need or the map was empty.
C14_EvictionOrder ==
    clast.op = "Set" /\ clast.evicted >= 1
      => LET old == clast.pre.items
             seq == clast.eseq
             n == Len(seq)
             gone == {seq[i] : i \in 1..n}
         IN /\ n = clast.evicted /\ gone \subseteq DOMAIN old
            /\ \A i, j \in 1..n : i # j => seq[i] # seq[j]
            /\ \A i \in 1..n :
                 /\ \A j \in (i + 1)..n : ~ScoreAbove(old[seq[j]], old[seq[i]], clast.at)
                 /\ \A k \in DOMAIN old \ gone :
                        ~ScoreAbove(old[k], old[seq[i]], clast.at)
                 /\ Freed(old, seq, i - 1) < clast.need
            /\ Freed(old, seq, n) >= clast.need \/ gone = DOMAIN old
            /\ \A k \in DOMAIN old \ gone :
                 k \in DOMAIN items
                 /\ (k # generateKey(clast.req) \/ ~clast.stored => items[k] = old[k])
            /\ \A k \in gone : k \in DOMAIN items => clast.stored /\ k = generateKey(clast.req)

C14_Witness ==
    /\ clast.op = "Set" /\ clast.stored /\ Len(clast.eseq) = 1
    /\ clast.need >= 1
    /\ \E k \in DOMAIN clast.pre.items \ {clast.eseq[1]} :
          ScoreAbove(clast.pre.items[clast.eseq[1]], clast.pre.items[k], clast.at)

\* C13: whatever the callers did to the response passed to Set and to the
\* responses Get returned, a Get that hits the entry a Set stored returns the
\* status, headers and body that Set was given.
C13_GetIndependentOfCallers ==
    clast.op = "Get" /\ clast.afterSet /\ clast.stored /\ clast.hit
      => /\ clast.got.StatusCode = clast.in.StatusCode
         /\ clast.got.CacheControl = clast.in.CacheControl
         /\ clast.got.Body = NewBuffer(clast.in.Body.data)


(***************************************************************************)
(* The proxy (internal/proxy): the handler of one service, serving one     *)
(* request at a time.  serviceHandler wraps handleRequest in the breaker's *)
(* Wrap when the service has a breaker; handleRequest consults the cache   *)
(* when there is one, forwards on a miss, stores a 200 answer and writes   *)
(* the response.                                                           *)
(***************************************************************************)
\* The URLs of inbound requests routed to the service: origin-form (a path,
\* what a client of the proxy sends) and absolute-form naming a host (what a
\* client sends to a forward proxy; r.URL then carries scheme and host, here
\* those of the service's backend); /s/no is a path the filter refuses
ProxyURLs == {"/s/x", "http://s1/s/x", "/s/no"}
ProxyRequests == [Method : {"GET"}, URL : ProxyURLs]

\* Scheme and host of a URL ("" when it has none)
Origin(u) == IF u = "http://s1/s/x" THEN "http://s1" ELSE ""

\* cfg.URL of the service: its configured backend
ServiceURL == "http://s1"

\* forwardRequest: outReq := r.Clone(ctx); its URL is the inbound request's
OutboundURL(r) == r.URL

\* An error value: whether it is a proxy.HTTPError, its code and its text
TransportError(text) == [http |-> FALSE, code |-> 0, text |-> text]

\* The answers of a server: a cacheable 200, a 200 with no-store, a 500
BackendResponses ==
    {[StatusCode |-> 200, CacheControl |-> "public", Body |-> NewBuffer(<<"x">>)],
     [StatusCode |-> 200, CacheControl |-> "no-store", Body |-> NewBuffer(<<>>)],
     [StatusCode |-> 500, CacheControl |-> "", Body |-> NewBuffer(<<>>)]}

\* p.client.Do(outReq): a URL without a scheme is refused by the transport;
\* otherwise the named host answers, or the connection fails
ForwardResults(u) ==
    IF Origin(u) = ""
      THEN {[kind |-> "error", err |-> TransportError("unsupported protocol scheme"),
             resp |-> NoResp]}
      ELSE {[kind |-> "error", err |-> TransportError("connection refused"),
             resp |-> NoResp]}
           \cup {[kind |-> "answer", err |-> TransportError(""), resp |-> a] :
                    a \in BackendResponses}

\* http.Error(w, msg, code) as the client sees it
HttpError(msg, c) == [StatusCode |-> c, CacheControl |-> "", Body |-> <<msg>>]

\* Mutant: the error's text is sent to the client
ErrorMessage_Echo(err) == err.text

\* handleError: msg is "Internal Server Error" unless err is an HTTPError
ErrorMessage(err) == IF err.http THEN err.text ELSE "Internal Server Error"

\* handleError: code is 500 unless err is an HTTPError
ErrorCode(err) == IF err.http THEN err.code ELSE 500

\* p.filters: a filters.PathFilter whose patterns match every path of the
\* service but /s/no; Process returns fmt.Errorf("path %s not allowed", path)
FilterResult(r) ==
    IF r.URL = "/s/no"
      THEN [ok |-> FALSE, err |-> [http |-> FALSE, code |-> 0,
                                   text |-> "path /s/no not allowed"]]
      ELSE [ok |-> TRUE, err |-> [http |-> FALSE, code |-> 0, text |-> ""]]

\* Mutant: Wrap goes on to the handler after answering 503
WrapCallsNext_NoReturn(allowed) == TRUE

\* Wrap: if !cb.Allow() { http.Error(503); return }; next.ServeHTTP(sw, r)
WrapCallsNext(allowed) == allowed

\* Mutant: the cache is never consulted
CacheEnabled_Never == FALSE

\* handleRequest: p.cache != nil
CacheEnabled == cfg.cache

\* Mutant: a hit is counted as a miss
CountHit_AsMiss(m) == [m EXCEPT !.cacheMisses = @ + 1]

\* p.metrics.cacheHits.Add(1)
CountHit(m) == [m EXCEPT !.cacheHits = @ + 1]

\* Where the request goes when handleRequest returns: back into Wrap, if the
\* service has a breaker
AfterHandler == IF cfg.breaker THEN "record" ELSE "done"

\* A request for the service arrives at serviceHandler's handler
ProxyArrive(r) ==
    /\ proxy.pc = "idle"
    /\ Len(log) < MaxReqs
    /\ proxy' = [IdleProxy EXCEPT !.pc = IF cfg.breaker THEN "wrap" ELSE "filter",
                                  !.req = r, !.m0 = metrics, !.b0 = backend]
    /\ UNCHANGED <<now, breakerVars, cacheVars, cfg, sideVars, metrics, backend, log>>

\* Wrap: cb.Allow(), and the 503 when it returns false
ProxyAllow ==
    /\ proxy.pc = "wrap"
    /\ LET d == AllowDecision
           allowed == d # "false"
       IN /\ IF d = "upgrade" THEN setState(StateHalfOpen) ELSE UNCHANGED state
          /\ proxy' = [proxy EXCEPT
                         !.allowed = allowed,
                         !.trace = Append(@, "allow"),
                         !.out = IF allowed THEN @
                                 ELSE HttpError("Service Unavailable", 503),
                         !.pc = IF WrapCallsNext(allowed) THEN "filter" ELSE "done"]
    /\ UNCHANGED <<now, maxFailures, timeout, failures, lastFailure, procVars,
                   histVars, cacheVars, cfg, sideVars, metrics, backend, log>>

\* serviceHandler's base handler: the filters process the request; an error
\* of a filter goes to handleError and the handler returns
ProxyFilter ==
    /\ proxy.pc = "filter"
    /\ LET f == FilterResult(proxy.req) IN
       IF f.ok
         THEN /\ proxy' = [proxy EXCEPT !.trace = Append(@, "filter"),
                                        !.pc = "handler"]
              /\ UNCHANGED metrics
         ELSE /\ metrics' = [metrics EXCEPT !.errors = @ + 1]
              /\ proxy' = [proxy EXCEPT
                             !.trace = Append(@, "filter"),
                             !.rejected = f.err.text,
                             !.out = HttpError(ErrorMessage(f.err), ErrorCode(f.err)),
                             !.status = ErrorCode(f.err),
                             !.pc = AfterHandler]
    /\ UNCHANGED <<now, breakerVars, cacheVars, cfg, sideVars, backend, log>>

\* handleRequest up to the cache check: count the request, look it up, and
\* on a hit count the hit and write the cached response (the deferred
\* logRequest runs when handleRequest returns)
ProxyHandle ==
    /\ proxy.pc = "handler"
    /\ IF CacheEnabled
         THEN LET o == GetOutcome(proxy.req) IN
              /\ GetStep(proxy.req)
              /\ IF o.hit
                   THEN /\ metrics' = CountHit([metrics EXCEPT !.requests = @ + 1])
                        /\ proxy' = [proxy EXCEPT
                                       !.trace = Append(@, "lookup"),
                                       !.lat = now, !.logged = TRUE,
                                       !.hit = TRUE, !.got = Written(o.got),
                                       !.out = Written(o.got),
                                       !.status = o.got.StatusCode,
                                       !.pc = AfterHandler]
                   ELSE /\ metrics' = [metrics EXCEPT !.requests = @ + 1,
                                                      !.cacheMisses = @ + 1]
                        /\ proxy' = [proxy EXCEPT !.trace = Append(@, "lookup"),
                                                  !.lat = now, !.pc = "forward"]
         ELSE /\ metrics' = [metrics EXCEPT !.requests = @ + 1]
              /\ proxy' = [proxy EXCEPT !.pc = "forward"]
              /\ UNCHANGED <<items, size, clast>>
    /\ UNCHANGED <<now, maxSize, ttl, breakerVars, cfg, sideVars, backend, log>>

\* handleRequest from forwardRequest on: the outbound request gets the
\* result res; an error goes to handleError, an answer is handed to the cache
\* when it is a 200 and written to the client
ProxyForward(res) ==
    /\ proxy.pc = "forward"
    /\ LET target == OutboundURL(proxy.req) IN
       /\ res \in ForwardResults(target)
       /\ backend' = [target |-> target,
                      calls |-> IF res.kind = "answer" /\ Origin(target) = ServiceURL
                                  THEN backend.calls + 1 ELSE backend.calls]
    /\ IF res.kind = "error"
         THEN /\ metrics' = [metrics EXCEPT !.errors = @ + 1]
              /\ proxy' = [proxy EXCEPT
                             !.trace = Append(@, "forward"),
                             !.fat = now, !.logged = TRUE,
                             !.fwd = res.err.text,
                             !.out = HttpError(ErrorMessage(res.err), ErrorCode(res.err)),
                             !.status = ErrorCode(res.err),
                             !.pc = AfterHandler]
              /\ UNCHANGED <<items, size, clast>>
         ELSE /\ IF CacheEnabled /\ res.resp.StatusCode = 200
                   THEN SetStep(proxy.req, res.resp)
                   ELSE UNCHANGED <<items, size, clast>>
              /\ proxy' = [proxy EXCEPT
                             !.trace = Append(@, "forward"),
                             !.fat = now, !.logged = TRUE,
                             !.fwd = "answer",
                             !.answer = Written(res.resp),
                             !.stored = CacheEnabled /\ res.resp.StatusCode = 200,
                             !.out = IF CacheEnabled /\ res.resp.StatusCode = 200
                                       THEN Written(LeftBySet(proxy.req, res.resp))
                                       ELSE Written(res.resp),
                             !.status = res.resp.StatusCode,
                             !.pc = AfterHandler]
              /\ UNCHANGED metrics
    /\ UNCHANGED <<now, maxSize, ttl, breakerVars, cfg, sideVars, log>>

\* Wrap after the handler has returned: Failure() or Success() by sw.status
ProxyRecord ==
    /\ proxy.pc = "record"
    /\ IF IsFailureStatus(proxy.status)
         THEN FailureCB /\ proxy' = [proxy EXCEPT !.recorded = "failure", !.pc = "done"]
         ELSE SuccessCB /\ proxy' = [proxy EXCEPT !.recorded = "success", !.pc = "done"]
    /\ UNCHANGED <<now, procVars, histVars, cacheVars, cfg, sideVars, metrics, backend, log>>

\* History: the summary of the request just served.  fwd tells how its
\* forwarding ended: "none", the error's text, "cacheable 200" or "other
\* answer"
Summary ==
    [url |-> proxy.req.URL, hit |-> proxy.hit, lat |-> proxy.lat, fat |-> proxy.fat,
     fwd |-> IF proxy.fwd # "answer" THEN proxy.fwd
             ELSE IF /\ proxy.answer.StatusCode = 200
                     /\ proxy.answer.CacheControl # "no-store"
                    THEN "cacheable 200" ELSE "other answer"]

\* The handler has returned: the request's summary joins the history and the
\* next request may arrive
ProxyDone ==
    /\ proxy.pc = "done"
    /\ log' = Append(log, Summary)
    /\ proxy' = IdleProxy
    /\ UNCHANGED <<now, breakerVars, cacheVars, cfg, sideVars, metrics, backend>>

\* proxy.New(cfg): the service with or without a breaker (MaxFailures 2 and
\* a timeout of one tick, as in TestProxyIntegration), with or without the
\* cache (cache.New(cache.Config{TTL: cfg.Cache.TTL}): no size limit)
InitProxy ==
    /\ now = 0
    /\ New(2, 1)
    /\ InitProcs
    /\ NewCache(0, TTL)
    /\ cfg \in [breaker : BOOLEAN, cache : BOOLEAN]
    /\ proxy = IdleProxy
    /\ metrics = NoMetrics
    /\ backend = NoBackend
    /\ log = <<>>
    /\ NoServices
    /\ NoHealth
    /\ NoMore

NextProxy ==
    \/ Tick
    \/ \E r \in ProxyRequests : ProxyArrive(r)
    \/ ProxyAllow
    \/ ProxyFilter
    \/ ProxyHandle
    \/ \E res \in UNION {ForwardResults(u) : u \in ProxyURLs} : ProxyForward(res)
    \/ ProxyRecord
    \/ ProxyDone
    \/ evictExpired

SpecProxy == InitProxy /\ [][NextProxy]_vars

\* The step e has been taken for the request being served
Happened(e) == \E i \in DOMAIN proxy.trace : proxy.trace[i] = e

\* The request being served has had its admission decided by the breaker
\* and was refused
Refused == cfg.breaker /\ Happened("allow") /\ ~proxy.allowed

\* C15: a request the service's breaker does not admit is answered 503, and
\* for it the proxy looks nothing up in the cache, forwards nothing to the
\* backend and records no Success on the breaker.
C15_RefusedRequest ==
    Refused =>
        /\ proxy.pc = "done"
        /\ proxy.out.StatusCode = 503
        /\ ~Happened("lookup")
        /\ ~Happened("forward")
        /\ backend = proxy.b0
        /\ proxy.recorded # "success"

C15_Witness ==
    /\ Refused
    /\ proxy.pc = "done"
    /\ proxy.out.StatusCode = 503
    /\ cfg.cache

\* The step e was taken for the request being served before its i-th step
Before(e, i) == \E j \in 1..(i - 1) : proxy.trace[j] = e

\* C16: within one request, the breaker's admission check (when the service
\* has a breaker) comes before the cache lookup, and the cache lookup (when
\* there is a cache) comes before any forwarding to the backend.
C16_StepOrder ==
    \A i \in DOMAIN proxy.trace :
        /\ proxy.trace[i] \in {"lookup", "forward"} /\ cfg.breaker => Before("allow", i)
        /\ proxy.trace[i] = "forward" /\ cfg.cache => Before("lookup", i)

C16_Witness ==
    /\ cfg.breaker
    /\ cfg.cache
    /\ proxy.trace = <<"allow", "filter", "lookup", "forward">>

\* The request being served missed the cache (or there is none) and has been
\* forwarded
Forwarded == Happened("forward")

\* C17: on a cache miss of an admitted request routed to the service, the
\* outbound request goes to the service's configured backend URL, and when
\* the backend answers the client gets the backend's status, headers and body.
C17_ForwardToBackend ==
    Forwarded =>
        /\ Origin(backend.target) = ServiceURL
        /\ proxy.fwd = "answer" => proxy.out = proxy.answer

\* The cache entry under the key of the request being served, as a client
\* would be sent it
EntryOf(r) ==
    LET item == items[generateKey(r)] IN
    [StatusCode |-> item.response.StatusCode,
     CacheControl |-> item.response.CacheControl, Body |-> item.body]

\* C18: with a cache, a request that Cache.Get hits is answered with the
\* cached status, headers and body, raises the cache-hit counter by exactly
\* one, and is not forwarded to the backend.
C18_CacheHit ==
    proxy.hit =>
        /\ cfg.cache
        /\ generateKey(proxy.req) \in DOMAIN items => proxy.out = EntryOf(proxy.req)
        /\ proxy.out = proxy.got
        /\ metrics.cacheHits = proxy.m0.cacheHits + 1
        /\ ~Forwarded
        /\ backend = proxy.b0

C18_Witness ==
    /\ proxy.hit
    /\ proxy.pc = "done"
    /\ generateKey(proxy.req) \in DOMAIN items
    /\ proxy.out = [StatusCode |-> 200, CacheControl |-> "public", Body |-> <<"x">>]
    /\ backend.calls = 1

\* The request summarised by e reached the service's backend
Invoked(e) == e.fwd \in {"cacheable 200", "other answer"}

\* While the request summarised by e was served, the service's backend was up
\* and answering cacheable 200s: no connection to it failed and it gave no
\* other answer
BackendUp(e) == e.fwd # "connection refused" /\ e.fwd # "other answer"

\* The requests i..j the proxy has served are the same GET, admitted and
\* made while the backend was up
SameGets(i, j) ==
    \A k \in i..j : log[k].url = log[i].url /\ log[k].lat >= 0 /\ BackendUp(log[k])

\* C19: with a cache, of two identical GETs in a row to a backend answering
\* a cacheable 200, the second coming within the TTL of the first's answer,
\* exactly one reaches the backend; a third one after the TTL reaches it again.
C19_OneInvocationPerTTL ==
    cfg.cache =>
        \A i \in 1..(Len(log) - 1) :
            /\ SameGets(i, i + 1)
            /\ ~log[i].hit
            /\ log[i + 1].lat <= log[i].fat + ttl
            => /\ Invoked(log[i]) /\ ~Invoked(log[i + 1])
               /\ i + 2 <= Len(log) /\ SameGets(i, i + 2)
                    /\ log[i + 2].lat > log[i].fat + ttl
                  => Invoked(log[i + 2])

\* Forwarding the request being served ended in an error of the transport
TransportFailed == Forwarded /\ proxy.fwd \notin {"none", "answer"}

\* C20: when forwarding fails in the transport, the client gets status 500
\* with the same generic message whatever the error says, the error counter
\* goes up by one, and once Wrap has classified the request a Failure() is
\* recorded on the service's breaker, if it has one.
C20_TransportFailure ==
    TransportFailed =>
        /\ proxy.out = HttpError("Internal Server Error", 500)
        /\ metrics.errors = proxy.m0.errors + 1
        /\ cfg.breaker => proxy.pc = "record" \/ proxy.recorded = "failure"

C20_Witness ==
    /\ TransportFailed
    /\ proxy.fwd = "connection refused"
    /\ cfg.breaker
    /\ proxy.pc = "done"
    /\ proxy.recorded = "failure"
    /\ state = StateOpen

FilterRejected == proxy.rejected # ""

C25_CountedAndLogged ==
    proxy.pc = "done" =>
        /\ metrics.requests = proxy.m0.requests + 1
        /\ proxy.logged

\* C38: every Success() or Failure() the proxy records on a breaker belongs to
\* a request that was forwarded to the backend: a request answered from the
\* cache or rejected by a filter records no outcome (so a HalfOpen breaker is
\* closed only by a backend call, and a rejection never counts toward opening).
C38_OutcomeOnlyWhenForwarded ==
    /\ proxy.recorded # "none" => Forwarded
    /\ proxy.hit \/ FilterRejected => proxy.recorded = "none"

(***************************************************************************)
(* Several services, each routed through the breaker the proxy keeps for   *)
(* it (Proxy.initialize, Proxy.serviceHandler); one request at a time.     *)
(* The breaker is a value here; the operators follow Allow, Failure and    *)
(* Success of breaker.go.                                                  *)
(***************************************************************************)
\* Allow() on breaker b: "true", "false" or "upgrade" (see AllowDecision)
AllowOf(b) ==
    IF b.state = StateOpen
      THEN IF SinceExceeds(b.lastFailure, b.timeout) THEN "upgrade" ELSE "false"
      ELSE "true"

\* b after Allow(): Open with the timeout passed becomes HalfOpen
AfterAllow(b) ==
    IF AllowOf(b) = "upgrade" THEN [b EXCEPT !.state = StateHalfOpen] ELSE b

\* b after Failure()
AfterFailure(b) ==
    [b EXCEPT !.failures = @ + 1,
              !.lastFailure = now,
              !.state = IF b.state = StateClosed /\ b.failures + 1 >= b.maxFailures
                          THEN StateOpen
                          ELSE IF b.state = StateHalfOpen THEN StateOpen ELSE @]

\* b after Success()
AfterSuccess(b) ==
    IF b.state = StateHalfOpen
      THEN [b EXCEPT !.state = StateClosed, !.failures = 0]
      ELSE b

\* Mutant: every service is routed through the breaker of s1
BreakerOf_Shared(s) == "s1"

\* serviceHandler(service, cfg): p.breakers[service]
BreakerOf(s) == s

\* A request whose path has the prefix of service s arrives
SvcArrive(s) ==
    /\ sreq.pc = "idle"
    /\ sreq' = [IdleSvc EXCEPT !.pc = "wrap", !.svc = s, !.cbs0 = cbs]
    /\ UNCHANGED <<now, breakerVars, cacheVars, cfg, proxy, metrics, backend, log, cbs, healthVars, moreVars>>

\* Wrap of the service's breaker: cb.Allow(), and the 503 when it is false
SvcAllow ==
    /\ sreq.pc = "wrap"
    /\ LET k == BreakerOf(sreq.svc) IN
       /\ cbs' = [cbs EXCEPT ![k] = AfterAllow(@)]
       /\ sreq' = [sreq EXCEPT !.allowed = AllowOf(cbs[k]) # "false",
                               !.pc = IF AllowOf(cbs[k]) # "false"
                                        THEN "handler" ELSE "done"]
    /\ UNCHANGED <<now, breakerVars, cacheVars, cfg, proxy, metrics, backend, log, healthVars, moreVars>>

\* The service's handler returns, leaving st in sw.status
SvcHandler(st) ==
    /\ sreq.pc = "handler"
    /\ sreq' = [sreq EXCEPT !.status = st, !.pc = "record"]
    /\ UNCHANGED <<now, breakerVars, cacheVars, cfg, proxy, metrics, backend, log, cbs, healthVars, moreVars>>

\* Wrap of the service's breaker: Failure() or Success() by sw.status
SvcRecord ==
    /\ sreq.pc = "record"
    /\ LET k == BreakerOf(sreq.svc) IN
       /\ IsFailureStatus(sreq.status) => cbs[k].failures < MaxCount
       /\ cbs' = [cbs EXCEPT ![k] = IF IsFailureStatus(sreq.status)
                                      THEN AfterFailure(@) ELSE AfterSuccess(@)]
    /\ sreq' = [sreq EXCEPT !.pc = "done"]
    /\ UNCHANGED <<now, breakerVars, cacheVars, cfg, proxy, metrics, backend, log, healthVars, moreVars>>

\* The request is over
SvcDone ==
    /\ sreq.pc = "done"
    /\ sreq' = IdleSvc
    /\ UNCHANGED <<now, breakerVars, cacheVars, cfg, proxy, metrics, backend, log, cbs, healthVars, moreVars>>

NextServices ==
    \/ TickCache
    \/ \E s \in Services : SvcArrive(s)
    \/ SvcAllow
    \/ \E st \in {200, 500} : SvcHandler(st)
    \/ SvcRecord
    \/ SvcDone

SpecServices == InitCache /\ [][NextServices]_vars

\* C22: each service has its own breaker: while a request to one service is
\* served, the breaker of every other service keeps its state, failure count
\* and last-failure time; so a request to a service whose breaker is Closed is
\* admitted whatever the state of the other breakers.
C22_BreakerPerService ==
    sreq.pc # "idle" =>
        /\ \A t \in Services \ {sreq.svc} : cbs[t] = sreq.cbs0[t]
        /\ sreq.pc # "wrap" /\ sreq.cbs0[sreq.svc].state = StateClosed => sreq.allowed

C22_Witness ==
    /\ sreq.pc = "done"
    /\ sreq.svc = "s2"
    /\ sreq.allowed
    /\ sreq.status = 200
    /\ cbs["s1"].state = StateOpen
    /\ cbs["s2"].state = StateClosed

(***************************************************************************)
(* The health checker (internal/health/checker.go) and the proxy's         *)
(* /health endpoint (Proxy.handleHealth).  The loop of Start, the          *)
(* goroutine checkServices starts per service and every caller of Stop     *)
(* are separate goroutines; a step ends where a goroutine may block or     *)
(* where another goroutine may see or change what the next step uses.      *)
(***************************************************************************)
\* Everything the health checker and /health leave alone, but for p.breakers
aroundHealth ==
    <<now, breakerVars, cacheVars, cfg, proxy, metrics, backend, log, sreq, moreVars>>

\* close(c.stopCh) of an already closed channel panicked: the process is gone
Crashed == \E g \in Stoppers : stops[g] = "panic"

\* Mutant: Store overwrites the fields of the entry one by one and leaves Message
StoreStatus_FieldWise(m, s, st) ==
    IF s \in DOMAIN m
      THEN [m EXCEPT ![s].Healthy = st.Healthy, ![s].LastCheck = st.LastCheck]
      ELSE [t \in DOMAIN m \cup {s} |-> IF t = s THEN st ELSE m[t]]

\* c.status.Store(name, status): the entry is replaced by the whole value
StoreStatus(m, s, st) ==
    [t \in DOMAIN m \cup {s} |-> IF t = s THEN st ELSE m[t]]

\* Mutant: every 2xx status counts as healthy
checkService_Any2xx(u, at, res) ==
    IF validateURL(u) # ""
      THEN Status(FALSE, at, "Invalid URL: " \o validateURL(u))
      ELSE CASE res = "refused" -> Status(FALSE, at, "Request failed: connection refused")
             [] res = "reset" -> Status(FALSE, at, "Failed to read response body: connection reset")
             [] res \notin {"200", "204"} ->
                    Status(FALSE, at, "Unexpected status code: " \o StatusLine(res))
             [] OTHER -> Status(TRUE, at, "")

\* checkService(url), started at time at, with res what the GET ended in
checkService(u, at, res) ==
    IF validateURL(u) # ""
      THEN Status(FALSE, at, "Invalid URL: " \o validateURL(u))
      ELSE CASE res = "refused" -> Status(FALSE, at, "Request failed: connection refused")
             [] res = "reset" -> Status(FALSE, at, "Failed to read response body: connection reset")
             [] res # "200" -> Status(FALSE, at, "Unexpected status code: " \o StatusLine(res))
             [] OTHER -> Status(TRUE, at, "")

\* GetStatus(service)
GetStatus(s) ==
    IF s \in DOMAIN checker.status
      THEN [status |-> checker.status[s], ok |-> TRUE]
      ELSE [status |-> ZeroStatus, ok |-> FALSE]

\* GetAllStatus()
GetAllStatus == checker.status

\* History: what the probe of s that completed last returned
LastCompleted(s) ==
    IF s \in DOMAIN hhist.done
      THEN [status |-> hhist.done[s], ok |-> TRUE]
      ELSE [status |-> ZeroStatus, ok |-> FALSE]

\* Start(): the ticker and the goroutine of the loop
Start ==
    /\ ~Crashed
    /\ loop.pc = "none"
    /\ loop' = [loop EXCEPT !.pc = "select"]
    /\ UNCHANGED <<aroundHealth, cbs, checker, ticker, probes, stops, health, hhist>>

\* The clock advances by one interval; the ticker of a running loop puts a
\* tick into ticker.C, which holds one tick at most
IntervalPasses ==
    /\ ~Crashed
    /\ now < MaxTime
    /\ now' = now + 1
    /\ ticker' = (ticker \/ loop.pc \in {"select", "wait"})
    /\ UNCHANGED <<breakerVars, cacheVars, cfg, proxy, metrics, backend, log, sreq,
                   cbs, checker, loop, probes, stops, health, hhist, moreVars>>

\* The loop's select takes the tick and checkServices starts one goroutine per
\* service; select may take this case while stopCh is closed as well
LoopTick ==
    /\ ~Crashed
    /\ loop.pc = "select"
    /\ ticker
    /\ ticker' = FALSE
    /\ loop' = [pc |-> "wait", start |-> now]
    /\ probes' = [s \in Services |-> [NoProbe EXCEPT !.pc = "spawned"]]
    /\ hhist' = [hhist EXCEPT !.late = @ \/ checker.stopCh = "closed",
                              !.started = @ + 1]
    /\ UNCHANGED <<aroundHealth, cbs, checker, stops, health>>

\* The loop's select takes <-c.stopCh and the goroutine returns
LoopStop ==
    /\ ~Crashed
    /\ loop.pc = "select"
    /\ checker.stopCh = "closed"
    /\ loop' = [loop EXCEPT !.pc = "returned"]
    /\ UNCHANGED <<aroundHealth, cbs, checker, ticker, probes, stops, health, hhist>>

\* The goroutine of service s has checked the service and stores the status
Completed(s, at, res) ==
    /\ checker' = [checker EXCEPT !.status =
           StoreStatus(@, s, checkService(checker.services[s], at, res))]
    /\ hhist' = [hhist EXCEPT
           !.done = [t \in DOMAIN @ \cup {s} |->
                       IF t = s THEN checkService(checker.services[s], at, res)
                       ELSE @[t]],
           !.res = [t \in DOMAIN @ \cup {s} |-> IF t = s THEN res ELSE @[t]]]

\* The goroutine of service s runs: checkService takes the time and validates
\* the URL; an invalid URL is reported at once, otherwise the GET is sent
ProbeBegin(s) ==
    /\ ~Crashed
    /\ probes[s].pc = "spawned"
    /\ IF validateURL(checker.services[s]) # ""
         THEN /\ Completed(s, now, "")
              /\ probes' = [probes EXCEPT ![s] = [pc |-> "done", at |-> now,
                                                   before |-> GetStatus(s),
                                                   healthy |-> FALSE]]
         ELSE /\ probes' = [probes EXCEPT ![s] = [pc |-> "flight", at |-> now,
                                                   before |-> GetStatus(s),
                                                   healthy |-> FALSE]]
              /\ UNCHANGED <<checker, hhist>>
    /\ UNCHANGED <<aroundHealth, cbs, ticker, loop, stops, health>>

\* The GET of the probe of s ends in res (within the client's timeout):
\* checkService returns and the goroutine stores the status
ProbeComplete(s, res) ==
    /\ ~Crashed
    /\ probes[s].pc = "flight"
    /\ Completed(s, probes[s].at, res)
    /\ probes' = [probes EXCEPT ![s].pc = "done",
                                ![s].healthy = checkService(checker.services[s],
                                                            probes[s].at, res).Healthy]
    /\ UNCHANGED <<aroundHealth, cbs, ticker, loop, stops, health>>

\* Mutant: wg.Wait() returns as soon as one goroutine of the cycle is done
WaitReturns_Early == \E s \in Services : probes[s].pc = "done"

\* wg.Wait() returns: every goroutine of the cycle has called wg.Done()
WaitReturns == \A s \in Services : probes[s].pc = "done"

\* wg.Wait() returns when every goroutine of the cycle is done; checkServices
\* writes the counters the goroutines added to into the metrics and the loop
\* is back at its select
LoopBarrier ==
    /\ ~Crashed
    /\ loop.pc = "wait"
    /\ WaitReturns
    /\ checker' = [checker EXCEPT !.metrics =
           [healthyServices |->
                Cardinality({s \in Services : probes[s].pc = "done" /\ probes[s].healthy}),
            unhealthyServices |->
                Cardinality({s \in Services : probes[s].pc = "done" /\ ~probes[s].healthy}),
            totalChecks |-> @.totalChecks + 1,
            lastCheckDuration |-> now - loop.start]]
    /\ loop' = [loop EXCEPT !.pc = "select"]
    /\ probes' = [s \in Services |-> NoProbe]
    /\ UNCHANGED <<aroundHealth, cbs, ticker, stops, health, hhist>>

\* Stop(), the select: a closed stopCh makes it return, an open one leads to
\* the default case
StopCheck(g) ==
    /\ ~Crashed
    /\ stops[g] = "idle"
    /\ stops' = [stops EXCEPT ![g] = IF checker.stopCh = "closed"
                                       THEN "returned" ELSE "close"]
    /\ UNCHANGED <<aroundHealth, cbs, checker, ticker, loop, probes, health, hhist>>

\* Stop(), the default case: close(c.stopCh); closing a closed channel panics
StopClose(g) ==
    /\ ~Crashed
    /\ stops[g] = "close"
    /\ stops' = [stops EXCEPT ![g] = IF checker.stopCh = "closed"
                                       THEN "panic" ELSE "returned"]
    /\ checker' = [checker EXCEPT !.stopCh = "closed"]
    /\ hhist' = [hhist EXCEPT !.closes = @ + 1]
    /\ UNCHANGED <<aroundHealth, cbs, ticker, loop, probes, health>>

\* Wrap of the breaker of service s around one request, start to end, the
\* handler leaving st in sw.status
Serve(s, st) ==
    /\ ~Crashed
    /\ s \in DOMAIN cbs
    /\ IsFailureStatus(st) => cbs[s].failures < MaxCount
    /\ cbs' = [cbs EXCEPT ![s] =
                 IF AllowOf(@) = "false" THEN @
                 ELSE IF IsFailureStatus(st) THEN AfterFailure(AfterAllow(@))
                 ELSE AfterSuccess(AfterAllow(@))]
    /\ UNCHANGED <<aroundHealth, checker, ticker, loop, probes, stops, health, hhist>>

\* handleHealth, the boolean of service s: Allow() of the service's breaker,
\* or whether http.Head(cfg.URL) returned without error (up)
ReportedByHealth(s, up) ==
    IF s \in DOMAIN cbs THEN AllowOf(cbs[s]) # "false" ELSE up[s]

\* the breakers after handleHealth has called Allow() on each of them
AllAfterAllow == [s \in DOMAIN cbs |-> AfterAllow(cbs[s])]

\* GET /health: handleHealth, with up what http.Head finds
HandleHealth(up) ==
    /\ ~Crashed
    /\ health' = [Status |-> IF \A s \in Services : ReportedByHealth(s, up)
                               THEN "ok" ELSE "degraded",
                  Services |-> [s \in Services |-> ReportedByHealth(s, up)],
                  checked |-> [s \in DOMAIN GetAllStatus |-> GetAllStatus[s].Healthy],
                  before |-> cbs,
                  after |-> AllAfterAllow]
    /\ cbs' = AllAfterAllow
    /\ UNCHANGED <<aroundHealth, checker, ticker, loop, probes, stops, hhist>>

\* A proxy whose service s1 has a circuit breaker and whose service s2 has
\* none, with its health checker
InitHealth ==
    /\ now = 0
    /\ New(1, 1)
    /\ InitProcs
    /\ NewCache(0, 1)
    /\ NoProxy
    /\ cbs = [s \in {"s1"} |-> NewBreaker(2, 1)]
    /\ sreq = IdleSvc
    /\ \E m \in ServiceMaps : NewChecker(m)
    /\ NoMore

NextHealth ==
    \/ IntervalPasses
    \/ Start
    \/ LoopTick
    \/ LoopStop
    \/ \E s \in Services : ProbeBegin(s)
    \/ \E s \in Services, res \in ProbeResults : ProbeComplete(s, res)
    \/ LoopBarrier
    \/ \E g \in Stoppers : StopCheck(g)
    \/ \E g \in Stoppers : StopClose(g)

SpecHealth == InitHealth /\ [][NextHealth]_vars

\* The checker at work, the traffic of the services and GET /health
NextHealthz ==
    \/ IntervalPasses
    \/ Start
    \/ LoopTick
    \/ \E s \in Services : ProbeBegin(s)
    \/ \E s \in Services, res \in ProbeResults : ProbeComplete(s, res)
    \/ LoopBarrier
    \/ \E s \in Services, st \in {200, 500} : Serve(s, st)
    \/ \E up \in [Services -> BOOLEAN] : HandleHealth(up)

SpecHealthz == InitHealth /\ [][NextHealthz]_vars

\* The checker's loop with every result a probe may end in
NextProbe ==
    \/ IntervalPasses
    \/ Start
    \/ LoopTick
    \/ \E s \in Services : ProbeBegin(s)
    \/ \E s \in Services, res \in AllProbeResults : ProbeComplete(s, res)
    \/ LoopBarrier

SpecProbe == InitHealth /\ [][NextProbe]_vars

\* C26: the boolean GET /health reports for a service equals the healthy flag
\* of the status the health checker holds for that service at that moment.
C26_HealthReportsChecker ==
    \A s \in Services :
        s \in DOMAIN health.Services /\ s \in DOMAIN health.checked =>
            health.Services[s] = health.checked[s]

\* C37: GET /health is read-only with respect to the circuit breakers: the
\* state, the failure count and the last-failure time of every breaker are the
\* same after the call as before it (no breaker moves from Open to HalfOpen).
C37_HealthLeavesBreakers == health.after = health.before

\* C27: Stop() never panics and stopCh is closed at most once, whether Stop()
\* is called once, again after an earlier Stop(), or by two goroutines at once.
C27_StopIsIdempotent == ~Crashed /\ hhist.closes <= 1

\* C28: within a cycle the status of service b is stored as soon as b's own
\* probe completes, and a probe of another service a that has not returned
\* does not hold up b's next probe: when the interval has passed again (a tick
\* waits in ticker.C) the loop is not held at the barrier by a's probe alone.
C28_ProbesIndependent ==
    \A a \in Services :
        /\ \A b \in Services \ {a} :
              probes[b].pc = "done" /\ probes[a].pc = "flight" =>
                  GetStatus(b) = LastCompleted(b) /\ GetStatus(b).status.LastCheck = probes[b].at
        /\ ~ /\ probes[a].pc = "flight"
             /\ \A b \in Services \ {a} : probes[b].pc = "done"
             /\ loop.pc = "wait"
             /\ ticker
             /\ checker.stopCh = "open"

\* C29: GetStatus returns the whole Status the probe of the service that
\* completed last computed (and false when none has completed); while a probe
\* is in flight the entry is what it was when the probe began.
C29_StatusOfLastCompleted ==
    \A s \in Services :
        /\ GetStatus(s) = LastCompleted(s)
        /\ probes[s].pc = "flight" => GetStatus(s) = probes[s].before

C29_Witness ==
    \E s \in Services :
        /\ probes[s].pc = "done"
        /\ probes[s].before.ok
        /\ probes[s].before.status.Healthy # GetStatus(s).status.Healthy
        /\ probes[s].before.status.Message # GetStatus(s).status.Message
        /\ probes[s].before.status.LastCheck # GetStatus(s).status.LastCheck
        /\ \E t \in Services \ {s} : probes[t].pc = "flight" /\ probes[t].before.ok

\* C30: once stopCh is closed the loop starts no probe cycle, and Stop() never
\* waits: its close(stopCh) can be taken whatever the loop and the probes do.
C30_NoCycleAfterStop ==
    /\ ~hhist.late
    /\ \A g \in Stoppers : stops[g] = "close" => ENABLED StopClose(g)

\* C31: the metrics of a cycle are written only after all its probes have
\* completed: after each completed cycle healthyServices + unhealthyServices
\* is the number of configured services, and totalChecks counts the completed
\* cycles, one per cycle.
C31_MetricsAfterBarrier ==
    /\ checker.metrics.totalChecks =
           hhist.started - (IF loop.pc = "wait" THEN 1 ELSE 0)
    /\ checker.metrics.totalChecks > 0 =>
           checker.metrics.healthyServices + checker.metrics.unhealthyServices
               = Cardinality(Services)
    /\ checker.metrics.totalChecks = 0 =>
           checker.metrics.healthyServices + checker.metrics.unhealthyServices = 0

C31_Witness ==
    /\ checker.metrics.totalChecks = 2
    /\ checker.metrics.healthyServices = 1
    /\ checker.metrics.unhealthyServices = 1
    /\ loop.pc = "select"

\* C32: a probe marks the service healthy exactly when its base URL is valid
\* (a scheme and a host), the GET ended without a transport failure and the
\* response status is 200; an invalid URL, a transport failure and a status
\* other than 200 each give an unhealthy status with the diagnostic message of
\* that cause.
C32_HealthyIff200 ==
    \A s \in DOMAIN hhist.done :
        LET st == hhist.done[s]
            u == ParseURL(checker.services[s])
            valid == u.Scheme # "" /\ u.Host # ""
            res == hhist.res[s]
        IN /\ st.Healthy <=> (valid /\ res = "200")
           /\ st.Healthy => st.Message = ""
           /\ ~valid => st.Message \in {"Invalid URL: missing scheme",
                                         "Invalid URL: missing host"}
           /\ valid /\ res = "refused" =>
                  st.Message = "Request failed: connection refused"
           /\ valid /\ res = "reset" =>
                  st.Message = "Failed to read response body: connection reset"
           /\ valid /\ res \in {"204", "500"} =>
                  st.Message = "Unexpected status code: " \o StatusLine(res)

C32_Witness ==
    /\ "s1" \in DOMAIN hhist.done /\ "s2" \in DOMAIN hhist.done
    /\ hhist.res["s1"] = "204"
    /\ ~hhist.done["s1"].Healthy
    /\ hhist.res["s2"] = "200"
    /\ hhist.done["s2"].Healthy

(***************************************************************************)
(* The filter chain (pkg/filters/filter.go).  Process holds fc.mu.RLock()  *)
(* and Add holds fc.mu.Lock() for their whole body, so each is one step.   *)
(***************************************************************************)
\* Everything the filter chain leaves alone
aroundFilters ==
    <<now, breakerVars, cacheVars, cfg, proxy, metrics, backend, log, cbs, sreq, healthVars,
      concVars, gaugeVars>>

\* filter.Process(r) of a test filter: its error, "" for nil
FilterError(f) == IF f.shouldError THEN "TestError: intentional error" ELSE ""

\* The loop of FilterChain.Process from position i on, with order the names of
\* the filters that have run
RECURSIVE ProcessFrom(_, _, _)
ProcessFrom(filters, i, order) ==
    IF i > Len(filters)
      THEN [order |-> order, ran |-> i - 1, err |-> ""]
      ELSE IF FilterError(filters[i]) # ""
        THEN [order |-> Append(order, filters[i].name), ran |-> i,
              err |-> "filter " \o filters[i].name \o " failed: "
                        \o FilterError(filters[i])]
        ELSE ProcessFrom(filters, i + 1, Append(order, filters[i].name))

\* Mutant: Add puts the new filter in front
AddTo_Front(filters, f) == <<f>> \o filters

\* append(fc.filters, filter)
AddTo(filters, f) == Append(filters, f)

\* FilterChain.Add(filter)
Add(f) ==
    /\ Len(fc) < MaxChain
    /\ fc' = AddTo(fc, f)
    /\ inserted' = Append(inserted, f)
    /\ UNCHANGED <<aroundFilters, frun>>

\* FilterChain.Process(r)
Process ==
    /\ frun' = [called |-> TRUE, order |-> ProcessFrom(fc, 1, <<>>).order,
                ran |-> ProcessFrom(fc, 1, <<>>).ran,
                err |-> ProcessFrom(fc, 1, <<>>).err, chain |-> inserted]
    /\ UNCHANGED <<aroundFilters, fc, inserted>>

\* A chain made of at most one filter; the rest is left alone
InitFilters ==
    /\ now = 0
    /\ New(1, 1)
    /\ InitProcs
    /\ NewCache(0, 1)
    /\ NoProxy
    /\ NoServices
    /\ NoHealth
    /\ \E filters \in {<<>>} \cup {<<f>> : f \in Filters} : NewFilterChain(filters)
    /\ NoCallers
    /\ NoGauge

NextFilters ==
    \/ \E f \in Filters : Add(f)
    \/ Process

SpecFilters == InitFilters /\ [][NextFilters]_vars

\* C33: Process runs the filters in the order they were given to the chain (a
\* filter added with Add after all earlier ones); the first filter returning
\* an error ends the run, no later filter runs and Process returns an error;
\* without a failing filter all run and Process returns nil.
C33_InsertionOrder ==
    frun.called =>
        LET failing == {i \in 1..Len(frun.chain) : frun.chain[i].shouldError}
            stop == IF failing = {} THEN Len(frun.chain)
                    ELSE CHOOSE i \in failing : \A j \in failing : i <= j
        IN /\ frun.ran = stop
           /\ frun.order = [i \in 1..stop |-> frun.chain[i].name]
           /\ (frun.err # "") <=> (failing # {})
           /\ failing # {} =>
                  frun.err = "filter " \o frun.chain[stop].name
                               \o " failed: TestError: intentional error"

C33_Witness ==
    /\ frun.called
    /\ Len(frun.chain) = 3
    /\ frun.order = <<"second", "first">>
    /\ frun.err # ""

(***************************************************************************)
(* The cache called by several goroutines at once (internal/cache/         *)
(* cache.go).  The cache has no lock of its own: c.items is a sync.Map and *)
(* c.size an atomic counter, so a step is one operation on the map or on   *)
(* the counter; a goroutine's steps interleave freely with the others'.    *)
(* item.mu is only ever read-locked (Get, evictExpired), never locked for  *)
(* writing, so RLock never waits.                                          *)
(***************************************************************************)
\* Everything the callers of the cache leave alone
aroundCallers ==
    <<breakerVars, maxSize, ttl, clast, cfg, proxy, metrics, backend, log, cbs, sreq,
      healthVars, filterVars, gaugeVars>>

\* The calls of Set offered to the goroutines: a response that is stored,
\* with a body of at least one byte
SetsOffered ==
    {c \in SetCalls : isCacheable(c[1], c[2]) /\ c[2].Body # NilBody
                      /\ Len(ReadAll(c[2].Body)) > 0}

\* The entry of key k is the one the goroutine holds a pointer to
SameEntry(g, k) == k \in DOMAIN items /\ k = callers[g].key /\ gens[k] = callers[g].gen

\* History: the size of entry e (a key and which of the entries stored under
\* it) has been taken off c.size once more
Subtracted(e) ==
    [x \in DOMAIN subs \cup {e} |->
        IF x = e THEN (IF e \in DOMAIN subs THEN subs[e] + 1 ELSE 1) ELSE subs[x]]

\* One goroutine's step; time does not move with it
CallerStep(g, c) ==
    /\ callers' = [callers EXCEPT ![g] = c]
    /\ UNCHANGED <<now, aroundCallers>>

\* The call of goroutine g returns
Returned(g) == IdleCaller(callers[g].calls)

\* Set(r, resp) up to the first check: the item is built and c.size is loaded;
\* newSize over maxSize leads into evict, otherwise to the Store
SetBegin(g, r, resp) ==
    /\ callers[g].pc = "idle"
    /\ callers[g].calls < MaxCalls
    /\ LET cp == copyResponse(resp)
           item == NewItem(cp.resp, cp.body)
       IN CallerStep(g, [callers[g] EXCEPT
              !.calls = @ + 1, !.key = generateKey(r), !.item = item,
              !.pc = IF NeedsEviction(size, item.size) THEN "collect" ELSE "store"])
    /\ UNCHANGED <<items, size, gens, subs>>

\* evict inside Set: Range computes the scores (reading lastUsed and hits of
\* every entry without item.mu) and sort.Slice orders the candidates
SetCollect(g, order) ==
    /\ callers[g].pc = "collect"
    /\ order \in EvictOrders(items)
    /\ CallerStep(g, [callers[g] EXCEPT
           !.pc = "evict", !.i = 1, !.freed = 0,
           !.cand = [j \in 1..Len(order) |->
                       [key |-> order[j], size |-> items[order[j]].size,
                        gen |-> gens[order[j]]]]])
    /\ UNCHANGED <<items, size, gens, subs>>

\* evict inside Set, one turn of the loop: LoadAndDelete of the candidate's
\* key and, if something was loaded, c.size.Add(-candidate.item.size)
SetEvictOne(g) ==
    /\ callers[g].pc = "evict"
    /\ LET c == callers[g]
           over == c.i > Len(c.cand) \/ c.freed >= c.item.size
           k == c.cand[c.i].key
           loaded == k \in DOMAIN items
       IN IF over
            THEN /\ CallerStep(g, [c EXCEPT !.pc = "recheck"])
                 /\ UNCHANGED <<items, size, subs>>
            ELSE /\ CallerStep(g, [c EXCEPT !.i = @ + 1,
                        !.freed = IF loaded THEN @ + c.cand[c.i].size ELSE @])
                 /\ items' = IF loaded THEN Delete(items, k) ELSE items
                 /\ size' = IF loaded THEN size - c.cand[c.i].size ELSE size
                 /\ subs' = IF loaded THEN Subtracted(<<k, c.cand[c.i].gen>>) ELSE subs
    /\ UNCHANGED gens

\* Set, the check after evict: "cache full", or on to the Store
SetRecheck(g) ==
    /\ callers[g].pc = "recheck"
    /\ CallerStep(g, IF StillFull(size, callers[g].item.size)
                       THEN Returned(g)
                       ELSE [callers[g] EXCEPT !.pc = "store"])
    /\ UNCHANGED <<items, size, gens, subs>>

\* Set: c.items.Store(key, item)
SetStore(g) ==
    /\ callers[g].pc = "store"
    /\ items' = Store(items, callers[g].key, callers[g].item)
    /\ gens' = [k \in DOMAIN gens \cup {callers[g].key} |->
                  IF k = callers[g].key
                    THEN (IF k \in DOMAIN gens THEN gens[k] + 1 ELSE 1)
                    ELSE gens[k]]
    /\ CallerStep(g, [callers[g] EXCEPT !.pc = "add"])
    /\ UNCHANGED <<size, subs>>

\* Set: c.size.Add(item.size), and the return
SetAdd(g) ==
    /\ callers[g].pc = "add"
    /\ size' = size + callers[g].item.size
    /\ CallerStep(g, Returned(g))
    /\ UNCHANGED <<items, gens, subs>>

\* Get(r): c.items.Load(key) finds an entry and item.mu.RLock() is taken (a
\* Get that finds nothing returns at once and leaves everything as it is)
GetLoad(g, r) ==
    /\ callers[g].pc = "idle"
    /\ callers[g].calls < MaxCalls
    /\ generateKey(r) \in DOMAIN items
    /\ CallerStep(g, [callers[g] EXCEPT
           !.calls = @ + 1, !.key = generateKey(r), !.item = items[generateKey(r)],
           !.gen = gens[generateKey(r)], !.pc = "locked"])
    /\ UNCHANGED <<items, size, gens, subs>>

\* Get under the read lock: an expired item leads to c.items.Delete(key),
\* any other to the update of its statistics
GetCheck(g) ==
    /\ callers[g].pc = "locked"
    /\ IF Expired(callers[g].item)
         THEN /\ items' = IF callers[g].key \in DOMAIN items
                            THEN Delete(items, callers[g].key) ELSE items
              /\ CallerStep(g, [callers[g] EXCEPT !.pc = "sub"])
         ELSE /\ CallerStep(g, [callers[g] EXCEPT !.pc = "touch"])
              /\ UNCHANGED items
    /\ UNCHANGED <<size, gens, subs>>

\* Get of an expired item: c.size.Add(-item.size), and the return
GetSub(g) ==
    /\ callers[g].pc = "sub"
    /\ size' = size - callers[g].item.size
    /\ subs' = Subtracted(<<callers[g].key, callers[g].gen>>)
    /\ CallerStep(g, Returned(g))
    /\ UNCHANGED <<items, gens>>

\* Get of a live item, still under the read lock: item.hits.Add(1) and
\* item.lastUsed = time.Now(), then the return; an item no longer in the map
\* is written all the same, without effect on the map
GetTouch(g) ==
    /\ callers[g].pc = "touch"
    /\ items' = IF SameEntry(g, callers[g].key)
                  THEN [items EXCEPT ![callers[g].key].hits = @ + 1,
                                     ![callers[g].key].lastUsed = now]
                  ELSE items
    /\ CallerStep(g, Returned(g))
    /\ UNCHANGED <<size, gens, subs>>

\* evictExpired, the Range: the keys of the expired items are collected
SweepCollect(g) ==
    /\ callers[g].pc = "idle"
    /\ callers[g].calls < MaxCalls
    /\ \E k \in DOMAIN items : Expired(items[k])
    /\ CallerStep(g, [callers[g] EXCEPT
           !.calls = @ + 1, !.pc = "sweep",
           !.keys = {k \in DOMAIN items : Expired(items[k])}])
    /\ UNCHANGED <<items, size, gens, subs>>

\* evictExpired, one turn of the second loop: LoadAndDelete(key) and, if
\* something was loaded, c.size.Add(-size of what was loaded)
SweepOne(g, k) ==
    /\ callers[g].pc = "sweep"
    /\ k \in callers[g].keys
    /\ items' = IF k \in DOMAIN items THEN Delete(items, k) ELSE items
    /\ size' = IF k \in DOMAIN items THEN size - items[k].size ELSE size
    /\ subs' = IF k \in DOMAIN items THEN Subtracted(<<k, gens[k]>>) ELSE subs
    /\ CallerStep(g, IF callers[g].keys = {k} THEN Returned(g)
                     ELSE [callers[g] EXCEPT !.keys = @ \ {k}])
    /\ UNCHANGED gens

\* The clock advances while goroutines are inside the cache
TickCallers ==
    /\ now < MaxTime
    /\ now' = now + 1
    /\ UNCHANGED <<aroundCallers, items, size, callers, gens, subs>>

\* A cache with a size limit, and goroutines about to call it
InitCallers ==
    /\ now = 0
    /\ New(1, 1)
    /\ InitProcs
    /\ \E ms \in 1..MaxCacheSize : NewCache(ms, TTL)
    /\ NoProxy
    /\ NoServices
    /\ NoHealth
    /\ NoMore

NextCallers ==
    \/ TickCallers
    \/ \E g \in Callers, c \in SetsOffered : SetBegin(g, c[1], c[2])
    \/ \E g \in Callers, order \in EvictOrders(items) : SetCollect(g, order)
    \/ \E g \in Callers : SetEvictOne(g)
    \/ \E g \in Callers : SetRecheck(g)
    \/ \E g \in Callers : SetStore(g)
    \/ \E g \in Callers : SetAdd(g)
    \/ \E g \in Callers, r \in Requests : GetLoad(g, r)
    \/ \E g \in Callers : GetCheck(g)
    \/ \E g \in Callers : GetSub(g)
    \/ \E g \in Callers : GetTouch(g)
    \/ \E g \in Callers : SweepCollect(g)
    \/ \E g \in Callers, k \in DOMAIN items \cup UNION {callers[h].keys : h \in Callers} :
          SweepOne(g, k)

SpecCallers == InitCallers /\ [][NextCallers]_vars

\* C34: with maxSize > 0, however concurrent Set calls for different keys
\* interleave, the sizes of the live entries never add up to more than
\* maxSize, and neither does the running size counter.
C34_ConcurrentSizeBound ==
    maxSize > 0 => SumSizes(items) <= maxSize /\ size <= maxSize

\* C35: however Gets, sweeps and evictions that find the same entry expired
\* interleave, the size of an entry is taken off the running total once per
\* entry at most, and the running total is never negative and never below the
\* sum of the sizes of the live entries (a Set between its Store and its Add
\* aside).
C35_SubtractedOnce ==
    /\ \A e \in DOMAIN subs : subs[e] <= 1
    /\ (\A g \in Callers : callers[g].pc # "add") =>
           size >= 0 /\ size >= SumSizes(items)

\* Goroutine g is about to write lastUsed of the entry of key k
Writing(g, k) == callers[g].pc = "touch" /\ SameEntry(g, k)

\* Goroutine g is about to read lastUsed of the entry of key k: evict reads it
\* for the score of every entry in the map
Reading(g, k) == callers[g].pc = "collect" /\ k \in DOMAIN items

\* C36: the accesses to one entry's last-access time exclude each other: no
\* two goroutines are about to write it at once, and none is about to read it
\* for the eviction score while another is about to write it.
C36_EntryAccessExclusive ==
    \A k \in DOMAIN items : \A g, h \in Callers :
        g # h /\ Writing(g, k) => ~Writing(h, k) /\ ~Reading(h, k)

(***************************************************************************)
(* The gauge of active requests (Proxy.handleRequest) and the periodic      *)
(* task of Proxy.collectMetrics, which Proxy.Start runs in a goroutine of   *)
(* its own.  The requests are served concurrently, one goroutine each; what *)
(* handleRequest does to the cache and the backend is in SpecProxy.         *)
(***************************************************************************)
aroundGauge ==
    <<now, breakerVars, cacheVars, cfg, proxy, backend, log, cbs, sreq, healthVars,
      filterVars, concVars>>

\* The requests currently inside handleRequest
Inside == {h \in Handlers : inside[h] # "out"}

\* handleRequest begins: p.metrics.activeRequests.Add(1)
HandlerEnter(h) ==
    /\ inside[h] = "out"
    /\ metrics.requests + Cardinality({g \in Handlers : inside[g] = "entered"}) < MaxReqs
    /\ inside' = [inside EXCEPT ![h] = "entered"]
    /\ activeRequests' = activeRequests + 1
    /\ UNCHANGED <<aroundGauge, metrics>>

\* handleRequest goes on: p.metrics.requests.Add(1), then the cache and the
\* backend
HandlerCount(h) ==
    /\ inside[h] = "entered"
    /\ inside' = [inside EXCEPT ![h] = "serving"]
    /\ metrics' = [metrics EXCEPT !.requests = @ + 1]
    /\ UNCHANGED <<aroundGauge, activeRequests>>

\* handleRequest returns: the deferred activeRequests.Add(-1)
HandlerLeave(h) ==
    /\ inside[h] = "serving"
    /\ inside' = [inside EXCEPT ![h] = "out"]
    /\ activeRequests' = activeRequests - 1
    /\ UNCHANGED <<aroundGauge, metrics>>

\* collectMetrics, one round of its loop: logMetrics, activeRequests.Store(0)
collectMetrics ==
    /\ activeRequests' = 0
    /\ UNCHANGED <<aroundGauge, metrics, inside>>

InitGauge ==
    /\ now = 0
    /\ New(1, 1)
    /\ InitProcs
    /\ NewCache(0, 1)
    /\ NoProxy
    /\ NoServices
    /\ NoHealth
    /\ NoMore

NextGauge ==
    \/ \E h \in Handlers : HandlerEnter(h)
    \/ \E h \in Handlers : HandlerCount(h)
    \/ \E h \in Handlers : HandlerLeave(h)
    \/ collectMetrics

SpecGauge == InitGauge /\ [][NextGauge]_vars

\* C39: in every reachable state the gauge of active requests equals the number
\* of requests currently inside handleRequest and is never negative, also
\* while the periodic metrics task runs beside the requests.
C39_GaugeCountsInside ==
    /\ activeRequests = Cardinality(Inside)
    /\ activeRequests >= 0

Next ==
    \/ Tick
    \/ \E p \in Procs : Success(p)
    \/ \E p \in Procs : Failure(p)
    \/ \E p \in Procs : Reset(p)
    \/ \E p \in Procs, w \in BOOLEAN : AllowCheck(p, w)
    \/ \E p \in Procs : AllowUpgrade(p)
    \/ \E p \in Procs, s \in Statuses : HandlerReturn(p, s)
    \/ \E p \in Procs : WrapRecord(p)
    \/ \E p \in Procs : WrapDone(p)

Spec == Init /\ [][Next]_vars

(***************************************************************************)
(* Circuit breaker properties.                                             *)
(***************************************************************************)

\* C40: for a breaker with maxFailures >= 1, after any sequence of Allow,
\* Success, Failure and Reset, a Closed breaker has fewer than maxFailures
\* failures counted and an Open or HalfOpen breaker has at least maxFailures.
C40_StateMatchesCount ==
    maxFailures >= 1 =>
        /\ state = StateClosed => failures < maxFailures
        /\ state \in {StateOpen, StateHalfOpen} => failures >= maxFailures

\* A breaker that was opened, counted a further failure while Open, and was
\* moved to HalfOpen by an Allow()
C40_Witness ==
    /\ maxFailures >= 1
    /\ state = StateHalfOpen
    /\ failures > maxFailures
    /\ last.op = "Allow"

\* A step that runs Failure(), called directly or by Wrap
FailureStep == \E p \in Procs : Failure(p) \/ (WrapRecord(p) /\ outcome'[p] = "failure")

\* A step that runs Success(), called directly or by Wrap
SuccessStep == \E p \in Procs : Success(p) \/ (WrapRecord(p) /\ outcome'[p] = "success")

\* C1: once Failure() calls have brought a Closed breaker to maxFailures, the
\* state is Open, and every Allow() call that begins before more than timeout
\* has elapsed since the most recently recorded failure returns false.
C1_OpenRejectsUntilTimeout ==
    [][ /\ (state = StateClosed /\ FailureStep /\ failures' >= maxFailures
              => state' = StateOpen)
        /\ \A p \in Procs : armed /\ (\E w \in BOOLEAN : AllowCheck(p, w))
              => last'.op = "Allow" /\ last'.ret = "false" ]_vars

\* C2: of the Allow() calls made once an Open breaker's timeout has elapsed
\* and before the trial reports Success() or Failure(), at most one returns
\* true.
C2_SingleTrial == trials <= 1

\* C3: from HalfOpen, Success() leads to Closed with the failure count 0 and
\* Failure() leads to Open.
C3_HalfOpenResolution ==
    /\ (last.op = "Success" /\ last.from = StateHalfOpen
          => state = StateClosed /\ failures = 0)
    /\ (last.op = "Failure" /\ last.from = StateHalfOpen
          => state = StateOpen)

C3_Witness ==
    /\ last.op = "Success" /\ last.from = StateHalfOpen
    /\ state = StateClosed /\ failures = 0

\* C4: the breaker moves from Open to HalfOpen only while more than timeout
\* has elapsed since the most recently recorded failure.
C4_UpgradeOnlyAfterTimeout ==
    [][ state = StateOpen /\ state' = StateHalfOpen
          => SinceExceeds(lastFailure, timeout) ]_vars

\* C5: in Closed, Success() leaves the state and the failure count alone, a
\* Failure() adds one to the count and opens the breaker when the count
\* reaches maxFailures, however many Success() calls came in between, and the
\* count drops (to 0) only in a call that ends in Closed: for Success() and
\* Failure() only on the transition from HalfOpen to Closed.
C5_FailuresAccumulate ==
    /\ (last.op = "Success" /\ last.from = StateClosed
          => state = StateClosed /\ failures = last.fails)
    /\ (last.op = "Failure" /\ last.from = StateClosed
          => /\ failures = last.fails + 1
             /\ state = IF failures >= maxFailures THEN StateOpen ELSE StateClosed)
    /\ (failures < last.fails
          => /\ failures = 0 /\ state = StateClosed
             /\ last.op \in {"Success", "Failure"} => last.from = StateHalfOpen)
    /\ (state = StateClosed => failures < maxFailures)

C5_Witness ==
    /\ last.op = "Success" /\ last.from = StateClosed /\ last.fails >= 1
    /\ state = StateClosed /\ failures = last.fails

====
